---- MODULE Spec2Model ----
(***************************************************************************)
(* Query router (src/src/ai_interface.py, ConversationalInterface) and the *)
(* query backend it reads (src/src/data_model.py, DatabaseManager and      *)
(* QueryBuilder).  Text is a sequence of one-character strings, so that    *)
(* lower-casing, regular-expression search and title-casing are computed   *)
(* character by character as the Python code computes them.                *)
(***************************************************************************)
EXTENDS Integers, Sequences, FiniteSets, TLC

\* ------------------------------------------------------------------ text

\* Python None, for the optional fields of a result: Null or <<value>>.
Null == <<>>
Some(v) == <<v>>

UpperCase == <<"A","B","C","D","E","F","G","H","I","J","K","L","M","N","O","P","Q","R","S","T","U","V","W","X","Y","Z">>
LowerCase == <<"a","b","c","d","e","f","g","h","i","j","k","l","m","n","o","p","q","r","s","t","u","v","w","x","y","z">>

RECURSIVE IndexIn(_, _, _)
\* Position of character c in alphabet at or after k, 0 when absent.
IndexIn(c, alphabet, k) ==
    IF k > Len(alphabet) THEN 0
    ELSE IF alphabet[k] = c THEN k ELSE IndexIn(c, alphabet, k + 1)

UpperSet == {UpperCase[k] : k \in 1..Len(UpperCase)}
LowerSet == {LowerCase[k] : k \in 1..Len(LowerCase)}
LowerOf == [c \in UpperSet |-> LowerCase[IndexIn(c, UpperCase, 1)]]
UpperOf == [c \in LowerSet |-> UpperCase[IndexIn(c, LowerCase, 1)]]

\* str.lower() on one character.
LowerChar(c) == IF c \in UpperSet THEN LowerOf[c] ELSE c

\* str.upper() on one character.
UpperChar(c) == IF c \in LowerSet THEN UpperOf[c] ELSE c

IsLetter(c) == c \in UpperSet \/ c \in LowerSet

\* question.lower()
Lower(s) == SubSeq([i \in 1..Len(s) |-> LowerChar(s[i])], 1, Len(s))

\* str.title(): a letter that follows a non-letter is upper-cased, every
\* other letter lower-cased.
Title(s) ==
    SubSeq([i \in 1..Len(s) |->
               IF i = 1 \/ ~IsLetter(s[i - 1]) THEN UpperChar(s[i])
               ELSE LowerChar(s[i])], 1, Len(s))

\* ------------------------------------------------- regular expressions

\* The character classes of the patterns: \s, \d and . (anything but newline).
InClass(c, cls) ==
    CASE cls = "s" -> c \in {" ", "\t", "\n", "\r", "\f"}
      [] cls = "d" -> c \in {"0", "1", "2", "3", "4", "5", "6", "7", "8", "9"}
      [] cls = "." -> c # "\n"

Lit(w) == [op |-> "lit", w |-> w]
Alt(ps) == [op |-> "alt", of |-> ps]
Opt(p) == [op |-> "opt", of |-> p]
Plus(cls) == [op |-> "plus", cls |-> cls]
Star(cls) == [op |-> "star", cls |-> cls]
\* (w1|w2|...) over plain words.
Words(ws) == [op |-> "words", ws |-> ws]

HasAt(s, i, w) ==
    /\ i + Len(w) - 1 <= Len(s)
    /\ s[i] = w[1]
    /\ SubSeq(s, i, i + Len(w) - 1) = w

RECURSIVE MatchAt(_, _, _)
\* Whether the pattern (a sequence of items) matches a prefix of s[i..].
MatchAt(p, s, i) ==
    IF p = <<>> THEN TRUE
    ELSE LET h == Head(p)
             t == Tail(p)
         IN  CASE h.op = "lit" -> HasAt(s, i, h.w) /\ MatchAt(t, s, i + Len(h.w))
               [] h.op = "words" ->
                    \E k \in 1..Len(h.ws) :
                        HasAt(s, i, h.ws[k]) /\ MatchAt(t, s, i + Len(h.ws[k]))
               [] h.op = "alt" -> \E k \in 1..Len(h.of) : MatchAt(h.of[k] \o t, s, i)
               [] h.op = "opt" -> MatchAt(h.of \o t, s, i) \/ MatchAt(t, s, i)
               [] h.op = "plus" ->
                    /\ i <= Len(s)
                    /\ InClass(s[i], h.cls)
                    /\ (MatchAt(p, s, i + 1) \/ MatchAt(t, s, i + 1))
               [] h.op = "star" ->
                    \/ MatchAt(t, s, i)
                    \/ (i <= Len(s) /\ InClass(s[i], h.cls) /\ MatchAt(p, s, i + 1))

\* re.search(pattern, s): a match starting anywhere.
Search(p, s) == \E i \in 1..(Len(s) + 1) : MatchAt(p, s, i)

\* ------------------------------------------------------ pattern table

\* self.query_patterns.  A word with an optional last letter (customers?) is
\* written as its two spellings, the longer first.
PatternTable ==
    [top_customers |->
        << Words(<<<<"t","o","p">>, <<"b","e","s","t">>, <<"h","i","g","h","e","s","t">>, <<"l","e","a","d","i","n","g">>>>),
           Plus("s"), Opt(<<Plus("d")>>), Star("s"),
           Words(<<<<"c","u","s","t","o","m","e","r","s">>, <<"c","u","s","t","o","m","e","r">>, <<"c","l","i","e","n","t","s">>, <<"c","l","i","e","n","t">>>>) >>,
     revenue_customers |->
        << Alt(<< <<Lit(<<"r","e","v","e","n","u","e">>)>>, <<Lit(<<"m","r","r">>)>>, <<Lit(<<"m","o","n","e","y">>)>>,
                  <<Lit(<<"i","n","c","o","m","e">>)>>,
                  <<Lit(<<"h","i","g","h","e","s","t">>), Star("."), Words(<<<<"p","a","y">>, <<"s","p","e","n","d">>>>)>> >>) >>,
     usage_correlation |->
        << Words(<<<<"c","o","r","r","e","l","a","t","i","o","n">>, <<"c","o","n","n","e","c","t","i","o","n">>, <<"r","e","l","a","t","i","o","n","s","h","i","p">>>>),
           Star("."),
           Words(<<<<"c","o","n","t","a","c","t","s">>, <<"c","o","n","t","a","c","t">>, <<"w","o","r","k","f","l","o","w","s">>, <<"w","o","r","k","f","l","o","w">>, <<"u","s","a","g","e">>>>) >>,
     plan_analysis |->
        << Words(<<<<"p","l","a","n">>, <<"t","i","e","r">>, <<"s","u","b","s","c","r","i","p","t","i","o","n">>>>),
           Star("."),
           Words(<<<<"p","e","r","f","o","r","m","a","n","c","e">>, <<"a","n","a","l","y","s","i","s">>, <<"c","o","m","p","a","r","i","s","o","n">>>>) >>,
     engagement |->
        << Words(<<<<"e","n","g","a","g","e","m","e","n","t">>, <<"a","c","t","i","v","e">>, <<"a","c","t","i","v","i","t","y">>, <<"u","s","a","g","e">>>>),
           Star("."),
           Words(<<<<"l","o","w">>, <<"h","i","g","h">>, <<"p","a","t","t","e","r","n","s">>, <<"p","a","t","t","e","r","n">>>>) >>,
     at_risk |->
        << Words(<<<<"r","i","s","k">>, <<"c","h","u","r","n">>, <<"d","a","n","g","e","r">>, <<"p","r","o","b","l","e","m">>, <<"i","s","s","u","e">>>>),
           Star("."),
           Words(<<<<"c","u","s","t","o","m","e","r","s">>, <<"c","u","s","t","o","m","e","r">>, <<"r","e","v","e","n","u","e">>>>) >>,
     feature_adoption |->
        << Words(<<<<"f","e","a","t","u","r","e">>, <<"a","d","o","p","t","i","o","n">>, <<"i","n","t","e","g","r","a","t","i","o","n">>, <<"a","p","i">>, <<"w","o","r","k","f","l","o","w">>>>),
           Star("."),
           Words(<<<<"u","s","a","g","e">>, <<"r","a","t","e">>>>) >>,
     lifecycle |->
        << Words(<<<<"l","i","f","e","c","y","c","l","e">>, <<"s","t","a","g","e">>, <<"n","e","w">>, <<"v","e","t","e","r","a","n">>, <<"m","a","t","u","r","e">>,
                   <<"g","r","o","w","i","n","g">>>>) >>,
     customer_insights |->
        << Words(<<<<"t","e","l","l"," ","m","e">>, <<"s","h","o","w"," ","m","e">>, <<"w","h","a","t">>, <<"i","n","s","i","g","h","t","s">>, <<"i","n","s","i","g","h","t">>>>),
           Star("."),
           Words(<<<<"a","b","o","u","t">>, <<"i","n","t","e","r","e","s","t","i","n","g">>>>) >>]

\* r'(basic|standard|pro|enterprise)'
PlanPattern == << Words(<<<<"b","a","s","i","c">>, <<"s","t","a","n","d","a","r","d">>, <<"p","r","o">>, <<"e","n","t","e","r","p","r","i","s","e">>>>) >>
PlanWords == <<<<"b","a","s","i","c">>, <<"s","t","a","n","d","a","r","d">>, <<"p","r","o">>, <<"e","n","t","e","r","p","r","i","s","e">>>>

\* ----------------------------------------------------- formatted text

\* An f-string: the template it is written from and the values interpolated
\* into it, each tagged with its type.
Txt(chars) == [t |-> "text", v |-> chars]
Num(n) == [t |-> "int", v |-> n]
Sym(name) == [t |-> "name", v |-> name]
Fmt(template, args) == [template |-> template, args |-> args]

\* Whether the formatted text interpolates the character string `chars`.
Interpolates(f, chars) ==
    \E k \in 1..Len(f.args) : f.args[k].t = "text" /\ f.args[k].v = chars

\* The argument for a non-str question: process_query(None).
NoneQuestion == <<"None">>
IsStr(q) == q # NoneQuestion

\* ------------------------------------------------------------ backend

\* The LIMIT of QueryBuilder.top_customers_by_revenue (limit: int = 10).
DefaultLimit == 10
\* The LIMIT of the plan-filtered query.
PlanQueryLimit == 20
\* Single precision keeps 24 bits of mantissa: 2^24.
FloatMantissa == 2^24

AbsInt(x) == IF x < 0 THEN -x ELSE x

RECURSIVE FloatUlp(_)
\* Distance between neighbouring single-precision values around x >= 0.
FloatUlp(x) == IF x < FloatMantissa THEN 1 ELSE 2 * FloatUlp(x \div 2)

\* CAST(x AS FLOAT) in DuckDB, where FLOAT is a 4-byte float: the integer x
\* rounded to the nearest representable value, ties to the even mantissa.
CastFloat(x) ==
    LET a == AbsInt(x)
        u == FloatUlp(a)
        q == a \div u
        r == a % u
        up == 2 * r > u \/ (2 * r = u /\ q % 2 = 1)
        m == IF up THEN (q + 1) * u ELSE q * u
    IN  IF x < 0 THEN -m ELSE m

\* QueryBuilder.top_customers_by_revenue(limit)
TopCustomersByRevenueSQL(limit) == Fmt("top_customers_by_revenue", <<Num(limit)>>)

\* QueryBuilder.get_common_queries()
CommonQueries ==
    [top_revenue_customers |-> TopCustomersByRevenueSQL(DefaultLimit),
     usage_by_plan |-> Fmt("usage_patterns_by_plan", <<>>),
     engagement_analysis |-> Fmt("customer_engagement_analysis", <<>>),
     plan_performance |-> Fmt("plan_performance_summary", <<>>),
     at_risk_customers |-> Fmt("revenue_at_risk_analysis", <<>>),
     feature_adoption |-> Fmt("feature_adoption_by_plan", <<>>),
     lifecycle_analysis |-> Fmt("customer_lifecycle_analysis", <<>>),
     low_engagement_high_value |->
         Fmt("high_value_customers_with_low_engagement", <<>>)]

\* The f-string SQL of _execute_custom_plan_query, with the plan interpolated
\* between the quotes of its WHERE clause.
PlanFilteredTemplate ==
    "SELECT ... FROM customers c JOIN plans p ... JOIN activity a ... WHERE p.plan_name = '{}' ORDER BY CAST(p.average_monthly_revenue AS FLOAT) DESC LIMIT 20"
PlanFilteredSQL(plan) == Fmt(PlanFilteredTemplate, <<Txt(plan)>>)

\* The tables a statement reads (its FROM and JOIN clauses).
TablesOf(sql) ==
    CASE sql.template \in {"top_customers_by_revenue"} -> {"customers", "plans"}
      [] sql.template \in {"plan_performance_summary", "feature_adoption_by_plan"} ->
            {"plans", "activity"}
      [] OTHER -> {"customers", "plans", "activity"}

\* The keyword each statement text starts with.
StatementVerb(sql) ==
    CASE sql.template = "top_customers_by_revenue" -> "SELECT"
      [] sql.template = "usage_patterns_by_plan" -> "SELECT"
      [] sql.template = "customer_engagement_analysis" -> "SELECT"
      [] sql.template = "plan_performance_summary" -> "SELECT"
      [] sql.template = "revenue_at_risk_analysis" -> "SELECT"
      [] sql.template = "feature_adoption_by_plan" -> "SELECT"
      [] sql.template = "customer_lifecycle_analysis" -> "SELECT"
      [] sql.template = "high_value_customers_with_low_engagement" -> "SELECT"
      [] sql.template = PlanFilteredTemplate -> "SELECT"
      [] OTHER -> "--"

\* A statement that only reads.
IsSelect(sql) == StatementVerb(sql) = "SELECT"

\* customers JOIN plans ON customer_id: the pairs of row positions.
JoinCP(store) ==
    LET c == store["customers"]
        p == store["plans"]
    IN  {ij \in (1..Len(c)) \X (1..Len(p)) : c[ij[1]].customer_id = p[ij[2]].customer_id}

\* customers JOIN plans JOIN activity ON customer_id.
JoinCPA(store) ==
    LET c == store["customers"]
        a == store["activity"]
    IN  UNION {{<<ij[1], ij[2], k>> :
                  k \in {n \in 1..Len(a) : a[n].customer_id = c[ij[1]].customer_id}} :
               ij \in JoinCP(store)}

\* plans JOIN activity ON customer_id.
JoinPA(store) ==
    LET p == store["plans"]
        a == store["activity"]
    IN  {jk \in (1..Len(p)) \X (1..Len(a)) : p[jk[1]].customer_id = a[jk[2]].customer_id}

\* The orders in which an engine may return rows whose sort keys are equal:
\* ORDER BY promises nothing about them.
TieOrders == {"first", "last"}

\* A sort key: the rational num / den (den > 0).
Ratio(num, den) == [num |-> num, den |-> den]
Whole(n) == Ratio(n, 1)
RatioLess(x, y) == x.num * y.den < y.num * x.den

RECURSIVE PosLess(_, _)
\* Row positions compared position by position.
PosLess(x, y) ==
    IF x = <<>> THEN FALSE
    ELSE IF Head(x) # Head(y) THEN Head(x) < Head(y)
    ELSE PosLess(Tail(x), Tail(y))

\* Whether keyed row x is returned before keyed row y under ORDER BY key DESC.
Before(x, y, tie) ==
    \/ RatioLess(y.key, x.key)
    \/ /\ ~RatioLess(x.key, y.key)
       /\ IF tie = "first" THEN PosLess(x.pos, y.pos) ELSE PosLess(y.pos, x.pos)

RECURSIVE OrderByDesc(_, _)
\* ORDER BY key DESC over a set of [key, pos] records: the positions, the one
\* that comes before all others first.
OrderByDesc(keyed, tie) ==
    IF keyed = {} THEN <<>>
    ELSE LET x == CHOOSE r \in keyed : \A o \in keyed \ {r} : Before(r, o, tie)
         IN  <<x.pos>> \o OrderByDesc(keyed \ {x}, tie)

\* LIMIT n
Limit(rows, n) == SubSeq(rows, 1, IF Len(rows) < n THEN Len(rows) ELSE n)

\* A DataFrame: its column names and its rows.
Table(cols, rows) == [cols |-> cols, rows |-> rows]

\* SELECT ... FROM customers c JOIN plans p ... ORDER BY CAST(revenue AS FLOAT)
\* DESC LIMIT {limit}
TopCustomersByRevenue(store, limit, tie) ==
    LET c == store["customers"]
        p == store["plans"]
        keyed == {[key |-> Whole(CastFloat(p[ij[2]].average_monthly_revenue)),
                   pos |-> ij] : ij \in JoinCP(store)}
        sorted == Limit(OrderByDesc(keyed, tie), limit)
    IN  Table(<<"customer_id", "customer_name", "plan_name",
                "average_monthly_revenue", "billings">>,
              [n \in 1..Len(sorted) |->
                 [customer_id |-> c[sorted[n][1]].customer_id,
                  customer_name |-> c[sorted[n][1]].customer_name,
                  plan_name |-> p[sorted[n][2]].plan_name,
                  average_monthly_revenue |-> p[sorted[n][2]].average_monthly_revenue,
                  billings |-> p[sorted[n][2]].billings]])

\* One row of the customers-plans-activity join with the columns the row-level
\* analyses select.
JoinedRow(store, t) ==
    LET c == store["customers"][t[1]]
        p == store["plans"][t[2]]
        a == store["activity"][t[3]]
    IN  [customer_id |-> c.customer_id,
         customer_name |-> c.customer_name,
         plan_name |-> p.plan_name,
         revenue |-> CastFloat(p.average_monthly_revenue),
         billings |-> p.billings,
         months_since_active |-> p.months_since_active,
         regular_users |-> a.regular_users,
         monthly_active_users |-> a.monthly_active_users,
         user_activation_rate |->
             IF a.regular_users > 0
             THEN Ratio(a.monthly_active_users * 100, a.regular_users) ELSE Whole(0),
         contacts |-> a.contacts,
         workflows |-> a.workflows,
         contacts_per_workflow |->
             IF a.workflows > 0 THEN Ratio(a.contacts, a.workflows) ELSE Whole(0),
         integrations |-> a.integrations]

RevenueKeyed(store, rows) ==
    {[key |-> Whole(CastFloat(store["plans"][t[2]].average_monthly_revenue)),
      pos |-> t] : t \in rows}

\* The plan-filtered SELECT: WHERE p.plan_name = '{plan}' ORDER BY revenue DESC
\* LIMIT 20
PlanFiltered(store, plan, tie) ==
    LET rows == {t \in JoinCPA(store) : store["plans"][t[2]].plan_name = plan}
        sorted == Limit(OrderByDesc(RevenueKeyed(store, rows), tie), PlanQueryLimit)
    IN  Table(<<"customer_name", "plan_name", "revenue", "regular_users",
                "monthly_active_users", "contacts", "workflows", "integrations",
                "billings">>,
              [n \in 1..Len(sorted) |-> JoinedRow(store, sorted[n])])

\* QueryBuilder.customer_engagement_analysis: every joined row, ORDER BY revenue DESC.
CustomerEngagementAnalysis(store, tie) ==
    LET sorted == OrderByDesc(RevenueKeyed(store, JoinCPA(store)), tie)
    IN  Table(<<"customer_id", "customer_name", "plan_name", "regular_users",
                "monthly_active_users", "user_activation_rate", "contacts",
                "workflows", "contacts_per_workflow", "revenue">>,
              [n \in 1..Len(sorted) |-> JoinedRow(store, sorted[n])])

\* CAST(a.monthly_active_users AS FLOAT) / a.regular_users < 0.3, for
\* regular_users > 0: the count is cast to single precision, and the quotient
\* is compared with 3/10 without dividing.
LowRatio(a) == 10 * CastFloat(a.monthly_active_users) < 3 * a.regular_users

\* The same with <= 0.3 in place of < 0.3.
AtRiskInclusive(p, a) ==
    \/ p.billings # "Active"
    \/ a.monthly_active_users = 0
    \/ (a.regular_users > 0
        /\ 10 * CastFloat(a.monthly_active_users) <= 3 * a.regular_users)

\* The truth values of SQL, and AND and OR over them.
Truth(b) == IF b THEN "true" ELSE "false"
And3(x, y) ==
    IF x = "false" \/ y = "false" THEN "false"
    ELSE IF x = "null" \/ y = "null" THEN "null" ELSE "true"
Or3(x, y) ==
    IF x = "true" \/ y = "true" THEN "true"
    ELSE IF x = "null" \/ y = "null" THEN "null" ELSE "false"

\* The comparisons of the at-risk statement over cells that may be NULL (Null,
\* or Some(value)): a comparison with NULL is NULL.
\* p.billings != 'Active'
NotActive(billings) ==
    IF billings = Null THEN "null" ELSE Truth(billings[1] # "Active")
\* a.monthly_active_users = 0
IsZero(n) == IF n = Null THEN "null" ELSE Truth(n[1] = 0)
\* a.regular_users > 0
IsPositive(n) == IF n = Null THEN "null" ELSE Truth(n[1] > 0)
\* CAST(a.monthly_active_users AS FLOAT) / a.regular_users < 0.3, and the same
\* with <= 0.3.  What the quotient by zero compares as depends on the DuckDB
\* build (NULL, or an infinity or NaN): by_zero.
BelowThreshold(mau, users, by_zero) ==
    IF mau = Null \/ users = Null THEN "null"
    ELSE IF users[1] = 0 THEN by_zero
    ELSE IF users[1] > 0 THEN Truth(10 * CastFloat(mau[1]) < 3 * users[1])
    ELSE Truth(10 * CastFloat(mau[1]) > 3 * users[1])
AtOrBelowThreshold(mau, users, by_zero) ==
    IF mau = Null \/ users = Null THEN "null"
    ELSE IF users[1] = 0 THEN by_zero
    ELSE IF users[1] > 0 THEN Truth(10 * CastFloat(mau[1]) <= 3 * users[1])
    ELSE Truth(10 * CastFloat(mau[1]) >= 3 * users[1])

\* The third condition of the statement, in its WHERE clause and in its CASE.
LowEngaged(mau, users, by_zero) ==
    And3(IsPositive(users), BelowThreshold(mau, users, by_zero))

\* A WHERE clause with <= 0.3 in place of < 0.3.
AtRiskWhereInclusive(billings, mau, users, by_zero) ==
    Or3(Or3(NotActive(billings), IsZero(mau)),
        And3(IsPositive(users), AtOrBelowThreshold(mau, users, by_zero)))

\* The WHERE clause of QueryBuilder.revenue_at_risk_analysis over the cells
\* of a joined row.
AtRiskWhere(billings, mau, users, by_zero) ==
    Or3(Or3(NotActive(billings), IsZero(mau)), LowEngaged(mau, users, by_zero))

\* The CASE of QueryBuilder.revenue_at_risk_analysis over the same cells: the
\* first WHEN whose condition is true.
RiskCase(billings, mau, users, by_zero) ==
    IF NotActive(billings) = "true" THEN "Billing Issue"
    ELSE IF IsZero(mau) = "true" THEN "No Activity"
    ELSE IF LowEngaged(mau, users, by_zero) = "true" THEN "Low Engagement"
    ELSE "Healthy"

\* The WHERE clause on a plans row and an activity row that hold no NULL: the
\* row is selected when the clause is true.
AtRisk(p, a) ==
    AtRiskWhere(Some(p.billings), Some(a.monthly_active_users), Some(a.regular_users),
                "null") = "true"

\* The CASE on a plans row and an activity row that hold no NULL.
RiskCategory(p, a) ==
    RiskCase(Some(p.billings), Some(a.monthly_active_users), Some(a.regular_users),
             "null")

\* QueryBuilder.revenue_at_risk_analysis
RevenueAtRiskAnalysis(store, tie) ==
    LET rows == {t \in JoinCPA(store) :
                    AtRisk(store["plans"][t[2]], store["activity"][t[3]])}
        sorted == OrderByDesc(RevenueKeyed(store, rows), tie)
    IN  Table(<<"customer_name", "plan_name", "revenue", "billing_status",
                "months_since_active", "monthly_active_users", "regular_users",
                "risk_category">>,
              [n \in 1..Len(sorted) |->
                 JoinedRow(store, sorted[n]) @@
                 [risk_category |-> RiskCategory(store["plans"][sorted[n][2]],
                                                 store["activity"][sorted[n][3]])]])

\* The CASE of QueryBuilder.customer_lifecycle_analysis.
LifecycleStage(months) ==
    IF months <= 3 THEN "New"
    ELSE IF months <= 12 THEN "Growing"
    ELSE IF months <= 24 THEN "Mature"
    ELSE "Veteran"

\* QueryBuilder.customer_lifecycle_analysis: ORDER BY p.months_since_active DESC.
CustomerLifecycleAnalysis(store, tie) ==
    LET keyed == {[key |-> Whole(store["plans"][t[2]].months_since_active), pos |-> t] :
                     t \in JoinCPA(store)}
        sorted == OrderByDesc(keyed, tie)
    IN  Table(<<"customer_name", "plan_name", "months_since_active",
                "lifecycle_stage", "revenue", "billings", "monthly_active_users",
                "workflows">>,
              [n \in 1..Len(sorted) |->
                 JoinedRow(store, sorted[n]) @@
                 [lifecycle_stage |->
                     LifecycleStage(store["plans"][sorted[n][2]].months_since_active)]])

RECURSIVE SumOver(_, _)
\* SUM of f over a finite set of rows.
SumOver(rows, f) ==
    IF rows = {} THEN 0
    ELSE LET x == CHOOSE r \in rows : TRUE IN f[x] + SumOver(rows \ {x}, f)

\* GROUP BY p.plan_name over joined rows whose plans position is t[at]: one
\* group per plan name, with its COUNT, its summed revenue and the aggregates
\* the contextual answer reads, ORDER BY the given key DESC.
GroupByPlan(store, rows, at, cols, orderBy, tie) ==
    LET p == store["plans"]
        names == {p[t[at]].plan_name : t \in rows}
        members(nm) == {t \in rows : p[t[at]].plan_name = nm}
        first(nm) == CHOOSE t \in members(nm) : \A o \in members(nm) : ~PosLess(o, t)
        revenue(nm) ==
            SumOver(members(nm),
                    [t \in members(nm) |-> CastFloat(p[t[at]].average_monthly_revenue)])
        contacts(nm) ==
            SumOver(members(nm),
                    [t \in members(nm) |-> store["activity"][t[at + 1]].contacts])
        count(nm) == Cardinality(members(nm))
        keyOf(nm) ==
            CASE orderBy = "avg_revenue" -> Ratio(revenue(nm), count(nm))
              [] orderBy = "total_monthly_revenue" -> Whole(revenue(nm))
              [] orderBy = "customer_count" -> Whole(count(nm))
        keyed == {[key |-> keyOf(p[first(nm)[at]].plan_name), pos |-> first(nm)] :
                     nm \in names}
        sorted == OrderByDesc(keyed, tie)
    IN  Table(cols,
              [n \in 1..Len(sorted) |->
                 LET nm == p[sorted[n][at]].plan_name
                 IN  [plan_name |-> nm,
                      customer_count |-> count(nm),
                      total_monthly_revenue |-> revenue(nm),
                      avg_revenue |-> Ratio(revenue(nm), count(nm)),
                      avg_contacts |-> Ratio(contacts(nm), count(nm))]])

\* QueryBuilder.usage_patterns_by_plan
UsagePatternsByPlan(store, tie) ==
    GroupByPlan(store, JoinCPA(store), 2,
                <<"plan_name", "customer_count", "avg_contacts", "avg_workflows",
                  "avg_regular_users", "avg_monthly_active_users", "avg_integrations",
                  "avg_revenue">>,
                "avg_revenue", tie)

\* QueryBuilder.plan_performance_summary
PlanPerformanceSummary(store, tie) ==
    GroupByPlan(store, JoinPA(store), 1,
                <<"plan_name", "total_customers", "active_customers",
                  "avg_monthly_revenue", "total_monthly_revenue", "avg_users",
                  "avg_contacts", "avg_workflows">>,
                "total_monthly_revenue", tie)

\* QueryBuilder.feature_adoption_by_plan
FeatureAdoptionByPlan(store, tie) ==
    GroupByPlan(store, JoinPA(store), 1,
                <<"plan_name", "customer_count", "integration_adoption_rate",
                  "workflow_power_user_rate", "beacon_adoption_rate",
                  "api_adoption_rate", "security_adoption_rate">>,
                "customer_count", tie)

\* What the engine returns for a statement over the stored tables.
Select(sql, store, tie) ==
    CASE sql.template = "top_customers_by_revenue" ->
            TopCustomersByRevenue(store, sql.args[1].v, tie)
      [] sql.template = PlanFilteredTemplate -> PlanFiltered(store, sql.args[1].v, tie)
      [] sql.template = "customer_engagement_analysis" ->
            CustomerEngagementAnalysis(store, tie)
      [] sql.template = "revenue_at_risk_analysis" -> RevenueAtRiskAnalysis(store, tie)
      [] sql.template = "customer_lifecycle_analysis" ->
            CustomerLifecycleAnalysis(store, tie)
      [] sql.template = "usage_patterns_by_plan" -> UsagePatternsByPlan(store, tie)
      [] sql.template = "plan_performance_summary" -> PlanPerformanceSummary(store, tie)
      [] sql.template = "feature_adoption_by_plan" -> FeatureAdoptionByPlan(store, tie)

\* An execute_query that leaves the connection without its tables.
ExecuteQueryDropping(sql, store, tie) ==
    IF TablesOf(sql) \subseteq DOMAIN store
    THEN [raised |-> FALSE, msg |-> "", data |-> Some(Select(sql, store, tie)),
          store |-> [name \in DOMAIN store \ TablesOf(sql) |-> store[name]]]
    ELSE [raised |-> TRUE, msg |-> "Catalog Error: Table does not exist",
          data |-> Null, store |-> store]

\* DatabaseManager.execute_query(query) with use_duckdb = True: the DuckDB
\* connection runs the statement; an error (here a table the statement reads
\* that was never created) is logged and raised again.  A SELECT leaves the
\* stored tables as they are.
ExecuteQuery(sql, store, tie) ==
    IF TablesOf(sql) \subseteq DOMAIN store
    THEN [raised |-> FALSE, msg |-> "", data |-> Some(Select(sql, store, tie)),
          store |-> store]
    ELSE [raised |-> TRUE, msg |-> "Catalog Error: Table does not exist",
          data |-> Null, store |-> store]

\* ------------------------------------------------------ sample data

\* The state of numpy's global generator: the seed it was last given and how
\* many values were drawn since.  Before any seeding it runs from a seed the
\* program did not choose (0 here).
UnseededRng == [seed |-> 0, pos |-> 0]
\* np.random.seed(42)
SeededRng == [seed |-> 42, pos |-> 0]
\* The k-th value drawn from generator state s.
Draw(s, k) == [seed |-> s.seed, at |-> s.pos + k]
Advance(s, n) == [seed |-> s.seed, pos |-> s.pos + n]

\* The frame built from generator state s for a query type, and the number of
\* values it draws.
SampleFrame(query_type, s) ==
    CASE query_type = "top_revenue_customers" ->
            [data |-> Table(<<"customer_name", "plan_name", "revenue", "billings">>,
                            [i \in 1..10 |->
                               [customer_name |-> i, plan_name |-> Draw(s, i),
                                revenue |-> Draw(s, 10 + i), billings |-> "Active"]]),
             drawn |-> 20]
      [] query_type = "usage_by_plan" ->
            [data |-> Table(<<"plan_name", "customer_count", "avg_contacts",
                              "avg_workflows", "avg_revenue">>,
                            <<[plan_name |-> <<"B","a","s","i","c">>, customer_count |-> 30,
                               avg_contacts |-> 150, avg_workflows |-> 5,
                               avg_revenue |-> 99],
                              [plan_name |-> <<"S","t","a","n","d","a","r","d">>, customer_count |-> 40,
                               avg_contacts |-> 500, avg_workflows |-> 12,
                               avg_revenue |-> 299],
                              [plan_name |-> <<"P","r","o">>, customer_count |-> 20,
                               avg_contacts |-> 1200, avg_workflows |-> 25,
                               avg_revenue |-> 599],
                              [plan_name |-> <<"E","n","t","e","r","p","r","i","s","e">>, customer_count |-> 10,
                               avg_contacts |-> 3000, avg_workflows |-> 50,
                               avg_revenue |-> 1299]>>),
             drawn |-> 0]
      [] query_type = "engagement_analysis" ->
            [data |-> Table(<<"customer_name", "plan_name", "user_activation_rate",
                              "contacts_per_workflow", "revenue">>,
                            [i \in 1..10 |->
                               [customer_name |-> i, plan_name |-> Draw(s, i),
                                user_activation_rate |-> Draw(s, 10 + i),
                                contacts_per_workflow |-> Draw(s, 20 + i),
                                revenue |-> Draw(s, 30 + i)]]),
             drawn |-> 40]
      [] query_type = "at_risk_customers" ->
            [data |-> Table(<<"customer_name", "plan_name", "revenue", "risk_category",
                              "activation_rate">>,
                            [i \in 1..5 |->
                               [customer_name |-> i, plan_name |-> Draw(s, i),
                                revenue |-> Draw(s, 5 + i),
                                risk_category |-> Draw(s, 10 + i),
                                activation_rate |-> Draw(s, 15 + i)]]),
             drawn |-> 20]
      [] OTHER ->
            [data |-> Table(<<"customer_name", "metric_value", "category">>,
                            [i \in 1..5 |->
                               [customer_name |-> i, metric_value |-> Draw(s, i),
                                category |-> Draw(s, 5 + i)]]),
             drawn |-> 10]

\* Sample data drawn from the generator as the last call left it.
CreateSampleDataUnseeded(query_type, rng) ==
    LET f == SampleFrame(query_type, rng)
    IN  [data |-> f.data, rng |-> Advance(rng, f.drawn)]

\* _create_sample_data_for_query_type(query_type): np.random.seed(42) comes
\* first, so every frame is drawn from the same generator state.
CreateSampleDataForQueryType(query_type, rng) ==
    LET f == SampleFrame(query_type, SeededRng)
    IN  [data |-> f.data, rng |-> Advance(SeededRng, f.drawn)]

\* The query types with a canned sentence in _generate_sample_response.
SampleResponses ==
    {"top_revenue_customers", "usage_by_plan", "engagement_analysis",
     "at_risk_customers", "plan_performance", "feature_adoption",
     "lifecycle_analysis"}

\* A QueryResult.
QueryResult(answer, sql, data, error) ==
    [answer |-> answer, sql |-> sql, data |-> data, error |-> error]

\* _generate_sample_response
GenerateSampleResponse(query_type, original_question, rng) ==
    LET s == CreateSampleDataForQueryType(query_type, rng)
        answer == IF query_type \in SampleResponses
                  THEN Fmt("sample data", <<Sym(query_type)>>)
                  ELSE Fmt("Here's analysis for '{}' (sample data):",
                           <<Txt(original_question)>>)
    IN  [result |-> QueryResult(answer,
                                Some(Fmt("-- Sample SQL query for {}",
                                         <<Sym(query_type)>>)),
                                Some(s.data), Null),
         rng |-> s.rng]

\* A fallback that echoes the lower-cased question.
GenerateFallbackResponseLowered(question) ==
    QueryResult(Fmt("I understand you're asking: '{}'. ...", <<Txt(Lower(question))>>),
                Some(Fmt("-- This would be a generated SQL query based on your question",
                         <<>>)),
                Null, Null)

\* _generate_fallback_response
GenerateFallbackResponse(question) ==
    QueryResult(Fmt("I understand you're asking: '{}'. ...", <<Txt(question)>>),
                Some(Fmt("-- This would be a generated SQL query based on your question",
                         <<>>)),
                Null, Null)

RECURSIVE SumColumn(_, _)
\* data[col].sum() over whole-number cells.
SumColumn(rows, col) ==
    IF rows = <<>> THEN 0 ELSE Head(rows)[col] + SumColumn(Tail(rows), col)

HasColumn(data, col) == \E k \in 1..Len(data.cols) : data.cols[k] = col

\* data[col].idxmax(): the first row holding the largest value.
IdxMax(rows, col) ==
    CHOOSE n \in 1..Len(rows) :
        /\ \A m \in 1..Len(rows) : ~RatioLess(rows[n][col], rows[m][col])
        /\ \A m \in 1..(n - 1) : RatioLess(rows[m][col], rows[n][col])

\* Whether _generate_contextual_answer raises: data.loc[..., 'plan_name'] is
\* a KeyError on a result that has the column of the fact (avg_contacts,
\* total_monthly_revenue) but no plan_name.
ContextualAnswerRaises(query_type, data) ==
    /\ Len(data.rows) > 0
    /\ ~HasColumn(data, "plan_name")
    /\ \/ query_type = "usage_by_plan" /\ HasColumn(data, "avg_contacts")
       \/ query_type = "plan_performance" /\ HasColumn(data, "total_monthly_revenue")

\* _generate_contextual_answer: the sentence for the query type and the facts
\* whose columns the result has.
GenerateContextualAnswer(query_type, data, original_question) ==
    LET n == Len(data.rows)
        q == Txt(original_question)
    IN  IF n = 0
        THEN Fmt("No results found for your question about {}.", <<Sym(query_type)>>)
        ELSE CASE query_type = "top_revenue_customers" ->
                    IF HasColumn(data, "average_monthly_revenue")
                       \/ HasColumn(data, "revenue")
                    THEN LET col == IF HasColumn(data, "revenue") THEN "revenue"
                                    ELSE "average_monthly_revenue"
                         IN  Fmt("top revenue customers",
                                 <<q, Num(n), Num(SumColumn(data.rows, col)),
                                   IF HasColumn(data, "customer_name")
                                   THEN Num(data.rows[1].customer_name)
                                   ELSE Txt(<<"C","u","s","t","o","m","e","r">>),
                                   Num(data.rows[1][col])>>)
                    ELSE Fmt("top revenue customers", <<q>>)
               [] query_type = "usage_by_plan" ->
                    IF HasColumn(data, "avg_contacts")
                    THEN Fmt("usage by plan",
                             <<q, Num(n),
                               Txt(data.rows[IdxMax(data.rows, "avg_contacts")].plan_name)>>)
                    ELSE Fmt("usage by plan", <<q, Num(n)>>)
               [] query_type = "engagement_analysis" ->
                    IF HasColumn(data, "user_activation_rate")
                    THEN Fmt("engagement analysis",
                             <<q, Num(n),
                               [t |-> "mean",
                                v |-> [k \in 1..n |-> data.rows[k].user_activation_rate]]>>)
                    ELSE Fmt("engagement analysis", <<q, Num(n)>>)
               [] query_type = "at_risk_customers" ->
                    IF HasColumn(data, "revenue")
                    THEN Fmt("at risk customers",
                             <<q, Num(n), Num(SumColumn(data.rows, "revenue"))>>)
                    ELSE Fmt("at risk customers", <<q, Num(n)>>)
               [] query_type = "plan_performance" ->
                    IF HasColumn(data, "total_monthly_revenue")
                    THEN Fmt("plan performance",
                             <<q, Num(n),
                               Txt(data.rows[IdxMax([k \in 1..n |->
                                        [v |-> Whole(data.rows[k].total_monthly_revenue)]],
                                        "v")].plan_name)>>)
                    ELSE Fmt("plan performance", <<q, Num(n)>>)
               [] OTHER -> Fmt("records matching", <<q, Num(n)>>)

\* ------------------------------------------------------------- router

\* The import of QueryBuilder at the top of ai_interface.py succeeds:
\* src/data_model.py is part of the repository.
QUERY_BUILDER_AVAILABLE == TRUE

\* What a handler hands back besides the QueryResult: the generator state it
\* leaves, the statements it sent to the backend, the backend's tables
\* afterwards and whether execute_query raised.
Handled(result, rng, issued, store, failed) ==
    [result |-> Some(result), rng |-> rng, issued |-> issued, store |-> store,
     failed |-> failed]
\* A question no handler took: _match_query_patterns returns None.
NotHandled(rng, store) ==
    [result |-> Null, rng |-> rng, issued |-> <<>>, store |-> store, failed |-> FALSE]

\* The answer of _execute_custom_plan_query for the rows the backend returned.
PlanAnswer(plan, data) ==
    LET n == Len(data.rows)
        total == SumColumn(data.rows, "revenue")
    IN  IF n = 0 THEN Fmt("plan customers", <<Txt(plan)>>)
        ELSE Fmt("plan customers",
                 <<Txt(plan), Num(n), Num(total),
                   [t |-> "ratio", v |-> Ratio(total, n)],
                   [t |-> "ratio", v |-> Ratio(SumColumn(data.rows, "regular_users"), n)],
                   [t |-> "ratio", v |-> Ratio(SumColumn(data.rows, "workflows"), n)]>>)

\* The sample response s handed back by a handler that sent `issued` to the
\* backend; `failed` tells whether the backend raised.
Sampled(s, issued, store, failed) == Handled(s.result, s.rng, issued, store, failed)

\* The try block of _execute_query once execute_query has ended as x: an
\* exception, of execute_query or of _generate_contextual_answer, is logged
\* and answered with the sample response, rows are answered with the
\* contextual answer.
ExecuteQueryEnded(x, sql, query_type, original_question, rng) ==
    IF x.raised
    THEN Sampled(GenerateSampleResponse(query_type, original_question, rng),
                 <<sql>>, x.store, TRUE)
    ELSE IF ContextualAnswerRaises(query_type, x.data[1])
    THEN Sampled(GenerateSampleResponse(query_type, original_question, rng),
                 <<sql>>, x.store, FALSE)
    ELSE Handled(QueryResult(GenerateContextualAnswer(query_type, x.data[1],
                                                      original_question),
                             Some(sql), x.data, Null),
                 rng, <<sql>>, x.store, FALSE)

\* _execute_query(query_type, original_question)
ExecuteQueryType(query_type, original_question, db_manager, store, rng, tie) ==
    IF ~QUERY_BUILDER_AVAILABLE
    THEN Sampled(GenerateSampleResponse(query_type, original_question, rng),
                 <<>>, store, FALSE)
    ELSE IF query_type \notin DOMAIN CommonQueries
    THEN Handled(GenerateFallbackResponse(original_question), rng, <<>>, store, FALSE)
    ELSE LET sql == CommonQueries[query_type]
         IN  IF db_manager # Null
             THEN ExecuteQueryEnded(ExecuteQuery(sql, store, tie), sql, query_type,
                                    original_question, rng)
             ELSE Handled(QueryResult(
                              Fmt("Here's the SQL query that would answer your question about {}:",
                                  <<Sym(query_type)>>),
                              Some(sql), Null, Null),
                          rng, <<>>, store, FALSE)

\* The try block of _execute_custom_plan_query once execute_query has ended
\* as x.
PlanQueryEnded(x, sql, plan, original_question, rng) ==
    IF x.raised
    THEN Sampled(GenerateSampleResponse("plan_specific", original_question, rng),
                 <<sql>>, x.store, TRUE)
    ELSE Handled(QueryResult(PlanAnswer(plan, x.data[1]), Some(sql), x.data, Null),
                 rng, <<sql>>, x.store, FALSE)

\* _execute_custom_plan_query(plan, original_question)
ExecuteCustomPlanQuery(plan, original_question, db_manager, store, rng, tie) ==
    LET sql == PlanFilteredSQL(plan)
    IN  IF db_manager # Null
        THEN PlanQueryEnded(ExecuteQuery(sql, store, tie), sql, plan,
                            original_question, rng)
        ELSE Sampled(GenerateSampleResponse("plan_specific", original_question, rng),
                     <<>>, store, FALSE)

\* A search that tries the plan names in the order of the pattern, each over
\* the whole question, and takes the first that occurs anywhere.
PlanMatchByOrder(question_lower) ==
    LET found == {k \in 1..Len(PlanWords) :
                     \E i \in 1..Len(question_lower) :
                         HasAt(question_lower, i, PlanWords[k])}
    IN  IF found = {} THEN Null
        ELSE Some(PlanWords[CHOOSE k \in found : \A o \in found : k <= o])

\* re.search(r'(basic|standard|pro|enterprise)', question_lower).group(1): the
\* plan word at the leftmost position where one occurs, Null when none does.
PlanMatch(question_lower) ==
    LET hits == {i \in 1..Len(question_lower) :
                    \E k \in 1..Len(PlanWords) : HasAt(question_lower, i, PlanWords[k])}
    IN  IF hits = {} THEN Null
        ELSE LET i == CHOOSE h \in hits : \A o \in hits : h <= o
                 k == CHOOSE n \in 1..Len(PlanWords) :
                          /\ HasAt(question_lower, i, PlanWords[n])
                          /\ \A m \in 1..(n - 1) : ~HasAt(question_lower, i, PlanWords[m])
             IN  Some(PlanWords[k])

\* The handler a question was routed to, with the statement that handler
\* resolved or built.
Routed(handler, query_type, plan, sql) ==
    [handler |-> handler, query_type |-> query_type, plan |-> plan, sql |-> sql]
NotRouted == Routed("none", "", <<>>, Null)
ToQuery(query_type) ==
    Routed("_execute_query", query_type, <<>>,
           IF QUERY_BUILDER_AVAILABLE /\ query_type \in DOMAIN CommonQueries
           THEN Some(CommonQueries[query_type]) ELSE Null)
ToPlan(plan) == Routed("_execute_custom_plan_query", "", plan, Some(PlanFilteredSQL(plan)))

\* The chain with the lifecycle test ahead of the plan-analysis test.
RouteLifecycleFirst(question_lower, patterns) ==
    IF \/ Search(patterns.top_customers, question_lower)
       \/ Search(patterns.revenue_customers, question_lower)
    THEN ToQuery("top_revenue_customers")
    ELSE IF Search(patterns.usage_correlation, question_lower)
    THEN ToQuery("usage_by_plan")
    ELSE IF Search(patterns.lifecycle, question_lower)
    THEN ToQuery("lifecycle_analysis")
    ELSE IF Search(patterns.plan_analysis, question_lower)
    THEN ToQuery("plan_performance")
    ELSE IF Search(patterns.engagement, question_lower)
    THEN ToQuery("engagement_analysis")
    ELSE IF Search(patterns.at_risk, question_lower)
    THEN ToQuery("at_risk_customers")
    ELSE IF Search(patterns.feature_adoption, question_lower)
    THEN ToQuery("feature_adoption")
    ELSE IF Search(patterns.customer_insights, question_lower)
    THEN LET plan_match == PlanMatch(question_lower)
         IN  IF plan_match # Null THEN ToPlan(Title(plan_match[1]))
             ELSE ToQuery("engagement_analysis")
    ELSE NotRouted

\* The chain with the at-risk test ahead of the revenue tests.
RouteRiskFirst(question_lower, patterns) ==
    IF Search(patterns.at_risk, question_lower)
    THEN ToQuery("at_risk_customers")
    ELSE IF \/ Search(patterns.top_customers, question_lower)
       \/ Search(patterns.revenue_customers, question_lower)
    THEN ToQuery("top_revenue_customers")
    ELSE IF Search(patterns.usage_correlation, question_lower)
    THEN ToQuery("usage_by_plan")
    ELSE IF Search(patterns.plan_analysis, question_lower)
    THEN ToQuery("plan_performance")
    ELSE IF Search(patterns.engagement, question_lower)
    THEN ToQuery("engagement_analysis")
    ELSE IF Search(patterns.feature_adoption, question_lower)
    THEN ToQuery("feature_adoption")
    ELSE IF Search(patterns.lifecycle, question_lower)
    THEN ToQuery("lifecycle_analysis")
    ELSE IF Search(patterns.customer_insights, question_lower)
    THEN LET plan_match == PlanMatch(question_lower)
         IN  IF plan_match # Null THEN ToPlan(Title(plan_match[1]))
             ELSE ToQuery("engagement_analysis")
    ELSE NotRouted

\* The chain that passes the plan word on as it was matched, in lower case.
RoutePlanUntitled(question_lower, patterns) ==
    IF \/ Search(patterns.top_customers, question_lower)
       \/ Search(patterns.revenue_customers, question_lower)
    THEN ToQuery("top_revenue_customers")
    ELSE IF Search(patterns.usage_correlation, question_lower)
    THEN ToQuery("usage_by_plan")
    ELSE IF Search(patterns.plan_analysis, question_lower)
    THEN ToQuery("plan_performance")
    ELSE IF Search(patterns.engagement, question_lower)
    THEN ToQuery("engagement_analysis")
    ELSE IF Search(patterns.at_risk, question_lower)
    THEN ToQuery("at_risk_customers")
    ELSE IF Search(patterns.feature_adoption, question_lower)
    THEN ToQuery("feature_adoption")
    ELSE IF Search(patterns.lifecycle, question_lower)
    THEN ToQuery("lifecycle_analysis")
    ELSE IF Search(patterns.customer_insights, question_lower)
    THEN LET plan_match == PlanMatch(question_lower)
         IN  IF plan_match # Null THEN ToPlan(plan_match[1])
             ELSE ToQuery("engagement_analysis")
    ELSE NotRouted

\* The if-chain of _match_query_patterns over the lower-cased question: where
\* the question is routed.
Route(question_lower, patterns) ==
    IF \/ Search(patterns.top_customers, question_lower)
       \/ Search(patterns.revenue_customers, question_lower)
    THEN ToQuery("top_revenue_customers")
    ELSE IF Search(patterns.usage_correlation, question_lower)
    THEN ToQuery("usage_by_plan")
    ELSE IF Search(patterns.plan_analysis, question_lower)
    THEN ToQuery("plan_performance")
    ELSE IF Search(patterns.engagement, question_lower)
    THEN ToQuery("engagement_analysis")
    ELSE IF Search(patterns.at_risk, question_lower)
    THEN ToQuery("at_risk_customers")
    ELSE IF Search(patterns.feature_adoption, question_lower)
    THEN ToQuery("feature_adoption")
    ELSE IF Search(patterns.lifecycle, question_lower)
    THEN ToQuery("lifecycle_analysis")
    ELSE IF Search(patterns.customer_insights, question_lower)
    THEN LET plan_match == PlanMatch(question_lower)
         IN  IF plan_match # Null THEN ToPlan(Title(plan_match[1]))
             ELSE ToQuery("engagement_analysis")
    ELSE NotRouted

\* The return statement reached in _match_query_patterns for a question
\* routed as r.
Dispatch(r, question, db_manager, store, rng, tie) ==
    [raised |-> FALSE, msg |-> "", route |-> r,
     ret |-> CASE r.handler = "_execute_query" ->
                    ExecuteQueryType(r.query_type, question, db_manager, store, rng,
                                     tie)
               [] r.handler = "_execute_custom_plan_query" ->
                    ExecuteCustomPlanQuery(r.plan, question, db_manager, store, rng,
                                           tie)
               [] OTHER -> NotHandled(rng, store)]

\* _match_query_patterns(question): question.lower() raises for a question
\* that is no str; a routed question is handled, an unrouted one yields None.
MatchQueryPatterns(question, patterns, db_manager, store, rng, tie) ==
    IF ~IsStr(question)
    THEN [raised |-> TRUE,
          msg |-> "'NoneType' object has no attribute 'lower'",
          route |-> NotRouted,
          ret |-> NotHandled(rng, store)]
    ELSE Dispatch(Route(Lower(question), patterns), question, db_manager, store,
                  rng, tie)

\* A process_query whose except branch apologises without the message of the
\* exception.
ProcessQueryEndedTerse(m, user_question) ==
    IF m.raised
    THEN [raised |-> FALSE,
          value |-> QueryResult(
                        Fmt("I'm sorry, I encountered an error processing your question.",
                            <<>>),
                        Null, Null, Some(m.msg)),
          route |-> m.route, effects |-> m.ret]
    ELSE IF m.ret.result # Null
    THEN [raised |-> FALSE, value |-> m.ret.result[1], route |-> m.route,
          effects |-> m.ret]
    ELSE [raised |-> FALSE, value |-> GenerateFallbackResponse(user_question),
          route |-> m.route, effects |-> m.ret]

\* The body of process_query once _match_query_patterns has ended as m: an
\* exception becomes the error result, a result is returned as it is and None
\* becomes the fallback response.
ProcessQueryEnded(m, user_question) ==
    IF m.raised
    THEN [raised |-> FALSE,
          value |-> QueryResult(
                        Fmt("I'm sorry, I encountered an error processing your question: {}",
                            <<Sym(m.msg)>>),
                        Null, Null, Some(m.msg)),
          route |-> m.route, effects |-> m.ret]
    ELSE IF m.ret.result # Null
    THEN [raised |-> FALSE, value |-> m.ret.result[1], route |-> m.route,
          effects |-> m.ret]
    ELSE [raised |-> FALSE, value |-> GenerateFallbackResponse(user_question),
          route |-> m.route, effects |-> m.ret]

\* process_query without its fallback: an unmatched question returns the
\* None that _match_query_patterns gave.
NoFallbackEnded(m) ==
    IF m.raised
    THEN [raised |-> FALSE,
          value |-> QueryResult(
                        Fmt("I'm sorry, I encountered an error processing your question: {}",
                            <<Sym(m.msg)>>),
                        Null, Null, Some(m.msg)),
          route |-> m.route, effects |-> m.ret]
    ELSE [raised |-> FALSE,
          value |-> IF m.ret.result # Null THEN m.ret.result[1] ELSE Null,
          route |-> m.route, effects |-> m.ret]
ProcessQueryNoFallback(user_question, patterns, db_manager, store, rng, tie) ==
    NoFallbackEnded(MatchQueryPatterns(user_question, patterns, db_manager, store, rng,
                                       tie))

\* process_query(user_question): the outcome of the call (whether an exception
\* left it, and the value returned) and its effects.
ProcessQuery(user_question, patterns, db_manager, store, rng, tie) ==
    ProcessQueryEnded(MatchQueryPatterns(user_question, patterns, db_manager, store,
                                         rng, tie),
                      user_question)

\* ------------------------------------------------------- data frames
\* src/src/data_processing.py, DataProcessor.  A cell of a DataFrame is
\* tagged with what it holds: a number (a rational), a text (a sequence of
\* characters), a timestamp, a boolean, or nothing (NaN, NaT).

NumCell(r) == [t |-> "num", v |-> r]
IntCell(n) == NumCell(Whole(n))
StrCell(chars) == [t |-> "str", v |-> chars]
BoolCell(b) == [t |-> "bool", v |-> b]
DateCell(chars) == [t |-> "date", v |-> chars]
NaN == [t |-> "nan", v |-> <<>>]
NaT == [t |-> "nat", v |-> <<>>]

IsNum(c) == c.t = "num"
IsNa(c) == c.t \in {"nan", "nat"}

\* Rational arithmetic; a denominator stays positive.
RatioEq(x, y) == x.num * y.den = y.num * x.den
RatioLeq(x, y) == x.num * y.den <= y.num * x.den

RECURSIVE Gcd(_, _)
\* The greatest common divisor of a >= 0 and b >= 0.
Gcd(a, b) == IF b = 0 THEN a ELSE Gcd(b, a % b)

\* num / den in lowest terms, den > 0.
Reduced(num, den) ==
    Ratio(num \div Gcd(AbsInt(num), den), den \div Gcd(AbsInt(num), den))

RatioAdd(x, y) == Reduced(x.num * y.den + y.num * x.den, x.den * y.den)
RatioMul(x, y) == Reduced(x.num * y.num, x.den * y.den)
\* x / y for y # 0.
RatioDiv(x, y) ==
    IF y.num > 0 THEN Reduced(x.num * y.den, x.den * y.num)
    ELSE Reduced(-(x.num * y.den), x.den * (-y.num))

Digits == <<"0","1","2","3","4","5","6","7","8","9">>
DigitSet == {Digits[k] : k \in 1..Len(Digits)}
DigitOf == [c \in DigitSet |-> IndexIn(c, Digits, 1) - 1]

RECURSIVE DigitsValue(_, _)
\* The number the digit string spells, after the digits already read as acc.
DigitsValue(chars, acc) ==
    IF chars = <<>> THEN acc
    ELSE DigitsValue(Tail(chars), 10 * acc + DigitOf[Head(chars)])

RECURSIVE PowerOfTen(_)
PowerOfTen(n) == IF n = 0 THEN 1 ELSE 10 * PowerOfTen(n - 1)

AllDigits(chars) == \A k \in 1..Len(chars) : chars[k] \in DigitSet

\* The position of the first "." in chars, 0 when there is none.
DotAt(chars) == IndexIn(".", chars, 1)

\* An unsigned decimal literal: digits, optionally a point and more digits,
\* with a digit on at least one side of the point.  Null when chars is none.
ParseUnsigned(chars) ==
    IF DotAt(chars) = 0
    THEN IF chars # <<>> /\ AllDigits(chars)
         THEN Some(Whole(DigitsValue(chars, 0))) ELSE Null
    ELSE IF /\ Len(chars) > 1
            /\ AllDigits(SubSeq(chars, 1, DotAt(chars) - 1))
            /\ AllDigits(SubSeq(chars, DotAt(chars) + 1, Len(chars)))
    THEN Some(Ratio(DigitsValue(SubSeq(chars, 1, DotAt(chars) - 1)
                                    \o SubSeq(chars, DotAt(chars) + 1, Len(chars)), 0),
                    PowerOfTen(Len(chars) - DotAt(chars))))
    ELSE Null

Negated(parsed) ==
    IF parsed = Null THEN Null ELSE Some(Ratio(-parsed[1].num, parsed[1].den))

\* The float a text spells for pd.to_numeric: an optional sign and a decimal
\* literal; "nan" spells NaN; anything else does not parse.  Null when the
\* text is no number.
ParseNumber(chars) ==
    IF chars = <<>> THEN Null
    ELSE IF Head(chars) = "-" THEN Negated(ParseUnsigned(Tail(chars)))
    ELSE IF Head(chars) = "+" THEN ParseUnsigned(Tail(chars))
    ELSE ParseUnsigned(chars)

\* pd.to_numeric(column, errors='coerce') on one cell.
ToNumeric(c) ==
    CASE c.t = "num" -> c
      [] c.t = "bool" -> IntCell(IF c.v THEN 1 ELSE 0)
      [] c.t = "str" -> IF ParseNumber(c.v) = Null THEN NaN
                        ELSE NumCell(ParseNumber(c.v)[1])
      [] OTHER -> NaN

\* .fillna(value) on one cell.
FillNa(c, value) == IF IsNa(c) THEN value ELSE c

\* int(x): the fractional part is dropped, towards zero.
Truncate(r) ==
    IF r.num >= 0 THEN r.num \div r.den ELSE -((-r.num) \div r.den)

\* .astype(int) on a number cell.
AsInt(c) == IntCell(Truncate(c.v))

RECURSIVE IntText(_)
\* str(n) for n >= 0.
IntText(n) ==
    IF n < 10 THEN <<Digits[n + 1]>> ELSE IntText(n \div 10) \o <<Digits[(n % 10) + 1]>>

RECURSIVE FractionText(_, _, _)
\* The digits of num / den after the point, den a power of ten.
FractionText(num, den, acc) ==
    IF den = 1 THEN acc
    ELSE FractionText(num \div 10, den \div 10, <<Digits[(num % 10) + 1]>> \o acc)

RECURSIVE Shortest(_)
\* The same decimal without zeros at the end of its fraction.
Shortest(r) ==
    IF r.den > 1 /\ r.num % 10 = 0 THEN Shortest(Ratio(r.num \div 10, r.den \div 10))
    ELSE r

\* The digits of a decimal r >= 0 with the shortest fraction.
UnsignedText(r, is_float) ==
    IntText(r.num \div r.den)
        \o (IF r.den = 1
            THEN (IF is_float THEN <<".","0">> ELSE <<>>)
            ELSE <<".">> \o FractionText(r.num % r.den, r.den, <<>>))

\* str(x) for a number: an integer prints its digits, a float its digits
\* with the fraction it has (a whole float prints ".0").
NumberText(r, is_float) ==
    IF r.num < 0
    THEN <<"-">> \o UnsignedText(Shortest(Ratio(-r.num, r.den)), is_float)
    ELSE UnsignedText(Shortest(r), is_float)

RECURSIVE Without(_, _)
\* str.replace(ch, '') for a single character ch.
Without(chars, ch) ==
    IF chars = <<>> THEN <<>>
    ELSE IF Head(chars) = ch THEN Without(Tail(chars), ch)
    ELSE <<Head(chars)>> \o Without(Tail(chars), ch)

\* Whether two cells hold the same value, as a join or a duplicate test sees
\* them: numbers by value, missing values alike.
SameCell(a, b) ==
    /\ a.t = b.t
    /\ IF a.t = "num" THEN RatioEq(a.v, b.v) ELSE a.v = b.v

\* pd.DataFrame(): no column, no row.
EmptyFrame == Table(<<>>, <<>>)

\* The dtype of a column: object when it holds text (or nothing at all),
\* otherwise what its cells are.
Dtype(df, col) ==
    IF df.rows = <<>> \/ \E i \in 1..Len(df.rows) : df.rows[i][col].t = "str"
    THEN "object"
    ELSE IF \E i \in 1..Len(df.rows) : df.rows[i][col].t = "bool" THEN "bool"
    ELSE IF \E i \in 1..Len(df.rows) : df.rows[i][col].t \in {"date", "nat"}
    THEN "datetime64"
    ELSE IF \E i \in 1..Len(df.rows) :
                \/ df.rows[i][col].t = "nan"
                \/ df.rows[i][col].v.den # 1
    THEN "float64"
    ELSE "int64"

\* The rows of df with one more step applied to each.
Rows(df, rows) == Table(df.cols, SubSeq(rows, 1, Len(df.rows)))

\* What a cleaning or derivation step hands back: the frame, or the exception
\* that left it.
Returns(df) == [raised |-> FALSE, msg |-> "", df |-> df]
Raises(msg) == [raised |-> TRUE, msg |-> msg, df |-> EmptyFrame]

\* df.drop_duplicates(subset=['customer_id'], keep='last'): a row stays
\* unless a later row holds the same customer_id.
DropDuplicatesKeepLast(df) ==
    Table(df.cols,
          SelectSeq([i \in 1..Len(df.rows) |-> [at |-> i, row |-> df.rows[i]]],
                    LAMBDA x : \A j \in (x.at + 1)..Len(df.rows) :
                                   ~SameCell(df.rows[j].customer_id, x.row.customer_id)))

\* df.drop_duplicates(subset=['customer_id']): a row stays unless an earlier
\* row holds the same customer_id.
DropDuplicates(df) ==
    Table(df.cols,
          SelectSeq([i \in 1..Len(df.rows) |-> [at |-> i, row |-> df.rows[i]]],
                    LAMBDA x : \A j \in 1..(x.at - 1) :
                                   ~SameCell(df.rows[j].customer_id, x.row.customer_id)))

\* The rows of a frame of [at, row] pairs.
Unindexed(df) ==
    Table(df.cols, SubSeq([i \in 1..Len(df.rows) |-> df.rows[i].row], 1, Len(df.rows)))

UnknownCustomer == <<"U","n","k","n","o","w","n"," ","C","u","s","t","o","m","e","r">>

\* _clean_customers_table(df)
CleanCustomersTable(df) ==
    IF ~HasColumn(df, "customer_name") THEN Raises("KeyError: 'customer_name'")
    ELSE IF ~HasColumn(df, "customer_id") THEN Raises("KeyError: 'customer_id'")
    ELSE Returns(Unindexed(DropDuplicates(
             Rows(df, [i \in 1..Len(df.rows) |->
                         [df.rows[i] EXCEPT !.customer_name =
                              FillNa(@, StrCell(UnknownCustomer))]]))))

NumericStringCols == {"contacts", "tags", "saved_replies"}
NumericCols ==
    {"docs_sites", "mailboxes", "regular_users", "monthly_active_users", "paid_users",
     "workflows", "integrations", "beacons", "light_users", "all_answers_contacts",
     "all_resolutions"}

\* The two coercion loops of _clean_activity_table on one row.
CoercedActivity(row) ==
    [c \in DOMAIN row |->
        IF c \in NumericStringCols THEN AsInt(FillNa(ToNumeric(row[c]), IntCell(0)))
        ELSE IF c \in NumericCols THEN FillNa(ToNumeric(row[c]), IntCell(0))
        ELSE row[c]]

\* np.minimum on two number cells.
Minimum(a, b) == IF RatioLess(b.v, a.v) THEN b ELSE a

\* The row as the coercion leaves it, without the two np.minimum lines.
UnclampedActivity(row) == row

\* The validation of _clean_activity_table on one coerced row:
\* monthly_active_users and paid_users are held down to regular_users
\* (np.minimum), when the columns are there.
ClampedActivity(row) ==
    [c \in DOMAIN row |->
        IF c \in {"monthly_active_users", "paid_users"} /\ "regular_users" \in DOMAIN row
        THEN Minimum(row[c], row["regular_users"])
        ELSE row[c]]

\* _clean_activity_table(df)
CleanActivityTable(df) ==
    Returns(Rows(df, [i \in 1..Len(df.rows) |->
                        ClampedActivity(CoercedActivity(df.rows[i]))]))

\* The days of month m in year y.
DaysInMonth(y, m) ==
    IF m = 2
    THEN (IF y % 4 = 0 /\ (y % 100 # 0 \/ y % 400 = 0) THEN 29 ELSE 28)
    ELSE IF m \in {4, 6, 9, 11} THEN 30 ELSE 31

\* Whether chars spells a calendar day as YYYY-MM-DD.
IsIsoDate(chars) ==
    /\ Len(chars) = 10
    /\ chars[5] = "-" /\ chars[8] = "-"
    /\ AllDigits(SubSeq(chars, 1, 4) \o SubSeq(chars, 6, 7) \o SubSeq(chars, 9, 10))
    /\ DigitsValue(SubSeq(chars, 6, 7), 0) \in 1..12
    /\ DigitsValue(SubSeq(chars, 9, 10), 0) \in
           1..DaysInMonth(DigitsValue(SubSeq(chars, 1, 4), 0),
                          DigitsValue(SubSeq(chars, 6, 7), 0))

\* pd.to_datetime(column, errors='coerce') on one cell: a day the text
\* spells, the start of the epoch for a small number, NaT otherwise.
ToDatetime(c) ==
    CASE c.t = "date" -> c
      [] c.t = "str" -> IF IsIsoDate(c.v) THEN DateCell(c.v) ELSE NaT
      [] c.t = "num" -> DateCell(<<"1","9","7","0","-","0","1","-","0","1">>)
      [] OTHER -> NaT

DateColumns == {"close_date", "start_date", "end_date", "last_reply_date"}
BooleanCols == {"advanced_api_access", "api_rate_limit_increase", "advanced_security"}

\* plan_mapping
PlanMapping ==
    << <<<<"b","a","s","i","c">>, <<"B","a","s","i","c">>>>, <<<<"s","t","a","n","d","a","r","d">>, <<"S","t","a","n","d","a","r","d">>>>,
       <<<<"p","r","o">>, <<"P","r","o">>>>, <<<<"e","n","t","e","r","p","r","i","s","e">>, <<"E","n","t","e","r","p","r","i","s","e">>>> >>

\* df['plan_name'].str.lower().map(plan_mapping).fillna(df['plan_name']) on
\* one cell.
StandardPlanName(c) ==
    IF c.t = "str" /\ \E k \in 1..Len(PlanMapping) : PlanMapping[k][1] = Lower(c.v)
    THEN StrCell(PlanMapping[CHOOSE k \in 1..Len(PlanMapping) :
                                 PlanMapping[k][1] = Lower(c.v)][2])
    ELSE c

\* .astype(str) on one cell of a column that is float or not.
AsStr(c, is_float) ==
    CASE c.t = "str" -> c.v
      [] c.t = "num" -> NumberText(c.v, is_float)
      [] c.t = "bool" -> IF c.v THEN <<"T","r","u","e">> ELSE <<"F","a","l","s","e">>
      [] c.t = "date" -> c.v
      [] c.t = "nat" -> <<"N","a","T">>
      [] OTHER -> <<"n","a","n">>

\* The revenue lines of _clean_plans_table on one cell: the text of the cell
\* without "$" and ",", read as a number, 0 when it is none.
CleanRevenue(c, is_float) ==
    FillNa(ToNumeric(StrCell(Without(Without(AsStr(c, is_float), "$"), ","))),
           IntCell(0))

\* .astype(bool) on one cell: zero and the empty text are False, everything
\* else (NaN too) is True.
AsBool(c) ==
    CASE c.t = "bool" -> c
      [] c.t = "num" -> BoolCell(c.v.num # 0)
      [] c.t = "str" -> BoolCell(c.v # <<>>)
      [] OTHER -> BoolCell(TRUE)

\* _clean_plans_table on one row of a frame whose revenue column is float or
\* not.
CleanPlansRow(row, is_float) ==
    [c \in DOMAIN row |->
        IF c \in DateColumns THEN ToDatetime(row[c])
        ELSE IF c = "average_monthly_revenue" THEN CleanRevenue(row[c], is_float)
        ELSE IF c = "plan_name" THEN StandardPlanName(row[c])
        ELSE IF c \in BooleanCols THEN AsBool(row[c])
        ELSE row[c]]

\* _clean_plans_table(df): the .str accessor raises on a plan_name column
\* that holds no text.
CleanPlansTable(df) ==
    IF HasColumn(df, "plan_name") /\ Dtype(df, "plan_name") # "object"
    THEN Raises("AttributeError: Can only use .str accessor with string values")
    ELSE Returns(Rows(df, [i \in 1..Len(df.rows) |->
                             CleanPlansRow(df.rows[i],
                                           /\ HasColumn(df, "average_monthly_revenue")
                                           /\ Dtype(df, "average_monthly_revenue")
                                                  = "float64")]))

\* What clean_data hands back: the cleaned tables, the raw tables as the call
\* leaves them, or the exception of the table it stopped at.
Cleaned(cleaned, raw) == [raised |-> FALSE, msg |-> "", cleaned |-> cleaned, raw |-> raw]

\* _clean_<table_name>_table(df) for the three known names; any other table
\* is copied as it is.
CleanTable(table_name, df) ==
    CASE table_name = "customers" -> CleanCustomersTable(df)
      [] table_name = "activity" -> CleanActivityTable(df)
      [] table_name = "plans" -> CleanPlansTable(df)
      [] OTHER -> Returns(df)

\* The tables of file_mapping, in the order the loops visit them.
TableNames == <<"customers", "activity", "plans">>

\* The exception clean_data ends with: that of the first table, in the order
\* of the dict, whose cleaning raises.
CleanFailure(raw_data) ==
    [raised |-> TRUE,
     msg |-> CleanTable(TableNames[CHOOSE k \in 1..Len(TableNames) :
                            /\ CleanTable(TableNames[k], raw_data[TableNames[k]]).raised
                            /\ \A j \in 1..(k - 1) :
                                   ~CleanTable(TableNames[j], raw_data[TableNames[j]]).raised],
                        raw_data[TableNames[CHOOSE k \in 1..Len(TableNames) :
                            /\ CleanTable(TableNames[k], raw_data[TableNames[k]]).raised
                            /\ \A j \in 1..(k - 1) :
                                   ~CleanTable(TableNames[j], raw_data[TableNames[j]]).raised]]).msg,
     cleaned |-> <<>>, raw |-> raw_data]

\* clean_data(raw_data) where the cleaning ran in place, on the raw frames
\* themselves: column assignments show in the caller's tables.
CleanDataInPlace(raw_data) ==
    IF \E n \in DOMAIN raw_data : CleanTable(n, raw_data[n]).raised
    THEN CleanFailure(raw_data)
    ELSE Cleaned([n \in DOMAIN raw_data |-> CleanTable(n, raw_data[n]).df],
                 [n \in DOMAIN raw_data |->
                     IF n = "customers"
                     THEN Rows(raw_data[n],
                               [i \in 1..Len(raw_data[n].rows) |->
                                   [raw_data[n].rows[i] EXCEPT !.customer_name =
                                        FillNa(@, StrCell(UnknownCustomer))]])
                     ELSE CleanTable(n, raw_data[n]).df])

\* clean_data(raw_data): every table is cleaned on a copy (df.copy()), so the
\* raw tables stay as they were.
CleanData(raw_data) ==
    IF \E n \in DOMAIN raw_data : CleanTable(n, raw_data[n]).raised
    THEN CleanFailure(raw_data)
    ELSE Cleaned([n \in DOMAIN raw_data |-> CleanTable(n, raw_data[n]).df], raw_data)

\* The columns of a frame, as a set.
Columns(df) == {df.cols[k] : k \in 1..Len(df.cols)}

\* What a left join writes in a column of the right table for a left row
\* without a match.
Missing(right, col) == IF Dtype(right, col) = "datetime64" THEN NaT ELSE NaN

\* The joined rows of one left row: one for every matching row of the right
\* table, in its order, or one filled with missing values when none matches.
Matched(l, m, right) ==
    IF m = <<>>
    THEN <<[c \in DOMAIN l \cup Columns(right) |->
               IF c \in DOMAIN l THEN l[c] ELSE Missing(right, c)]>>
    ELSE SubSeq([k \in 1..Len(m) |->
                    [c \in DOMAIN l \cup Columns(right) |->
                        IF c \in DOMAIN l THEN l[c] ELSE m[k][c]]], 1, Len(m))

RECURSIVE MergeRows(_, _)
\* The rows of left.merge(right, on='customer_id', how='left'): the order of
\* the left rows is kept.
MergeRows(left_rows, right) ==
    IF left_rows = <<>> THEN <<>>
    ELSE Matched(Head(left_rows),
                 SelectSeq(right.rows,
                           LAMBDA r : SameCell(r.customer_id,
                                               Head(left_rows).customer_id)),
                 right)
         \o MergeRows(Tail(left_rows), right)

\* left.merge(right, on='customer_id', how='left').  The frames joined here
\* share no column but customer_id.  pandas refuses to join a text key with
\* a key of another dtype when both frames have rows.
Merge(left, right) ==
    IF ~HasColumn(right, "customer_id") THEN Raises("KeyError: 'customer_id'")
    ELSE IF /\ left.rows # <<>> /\ right.rows # <<>>
            /\ Dtype(left, "customer_id") # Dtype(right, "customer_id")
            /\ "object" \in {Dtype(left, "customer_id"), Dtype(right, "customer_id")}
    THEN Raises("ValueError: You are trying to merge on columns of different dtypes")
    ELSE Returns(Table(left.cols \o SelectSeq(right.cols, LAMBDA c : c # "customer_id"),
                       MergeRows(left.rows, right)))

\* The second join of create_unified_dataset, after the first one ended.
JoinedPlans(joined, cleaned_data) ==
    IF joined.raised THEN joined ELSE Merge(joined.df, cleaned_data["plans"])

\* create_unified_dataset(cleaned_data): customers, left-joined with activity,
\* left-joined with plans.
CreateUnifiedDataset(cleaned_data) ==
    JoinedPlans(Merge(cleaned_data["customers"], cleaned_data["activity"]), cleaned_data)

\* df[available_cols].copy(): the wanted columns the frame has, in the order
\* they are asked for.
Project(df, wanted) ==
    Table(SelectSeq(wanted, LAMBDA c : HasColumn(df, c)),
          SubSeq([i \in 1..Len(df.rows) |->
                     [c \in {wanted[k] : k \in 1..Len(wanted)} \cap Columns(df) |->
                         df.rows[i][c]]], 1, Len(df.rows)))

\* The frame with one more column, computed row by row.
WithColumn(view, col, cells) ==
    Table(view.cols \o <<col>>,
          SubSeq([i \in 1..Len(view.rows) |->
                     [c \in DOMAIN view.rows[i] \cup {col} |->
                         IF c = col THEN cells[i] ELSE view.rows[i][c]]],
                 1, Len(view.rows)))

\* pd.cut(x, bins=[-inf, 100, 500, 2000, inf], labels=[...]) on one cell:
\* the intervals are closed on the right, (-inf, 100], (100, 500],
\* (500, 2000], (2000, inf).
Cut(c) ==
    IF ~IsNum(c) THEN NaN
    ELSE IF RatioLeq(c.v, Whole(100)) THEN StrCell(<<"L","o","w">>)
    ELSE IF RatioLeq(c.v, Whole(500)) THEN StrCell(<<"M","e","d","i","u","m">>)
    ELSE IF RatioLeq(c.v, Whole(2000)) THEN StrCell(<<"H","i","g","h">>)
    ELSE StrCell(<<"E","n","t","e","r","p","r","i","s","e">>)

SummaryCols ==
    <<"customer_id", "customer_name", "plan_name", "average_monthly_revenue",
      "months_since_active", "billings", "regular_users", "monthly_active_users">>

\* _create_customer_summary(df)
CreateCustomerSummary(df) ==
    IF HasColumn(df, "average_monthly_revenue")
    THEN Returns(WithColumn(Project(df, SummaryCols), "revenue_tier",
                            [i \in 1..Len(df.rows) |->
                                Cut(df.rows[i]["average_monthly_revenue"])]))
    ELSE Returns(Project(df, SummaryCols))

ActivityCols ==
    <<"customer_id", "customer_name", "plan_name", "contacts", "workflows",
      "integrations", "beacons", "all_answers_contacts", "all_resolutions">>

\* column.fillna(0) * weight on one cell, weight in tenths.
Weighted(c, tenths) == RatioMul(FillNa(c, IntCell(0)).v, Ratio(tenths, 10))

\* contacts * 0.3 + workflows * 0.4 + integrations * 0.2 + beacons * 0.1
EngagementScore(row) ==
    NumCell(RatioAdd(RatioAdd(Weighted(row["contacts"], 3), Weighted(row["workflows"], 4)),
                     RatioAdd(Weighted(row["integrations"], 2),
                              Weighted(row["beacons"], 1))))

\* _create_activity_metrics(df): the score is computed when contacts and
\* workflows are there, and reads integrations and beacons without asking.
CreateActivityMetrics(df) ==
    IF HasColumn(df, "contacts") /\ HasColumn(df, "workflows")
    THEN IF ~HasColumn(df, "integrations") THEN Raises("KeyError: 'integrations'")
         ELSE IF ~HasColumn(df, "beacons") THEN Raises("KeyError: 'beacons'")
         ELSE Returns(WithColumn(Project(df, ActivityCols), "engagement_score",
                                 [i \in 1..Len(df.rows) |-> EngagementScore(df.rows[i])]))
    ELSE Returns(Project(df, ActivityCols))

\* The characters in the order of their code points.
CodePoints == <<" ", "$", ",", "-", ".">> \o Digits \o UpperCase \o <<"_">> \o LowerCase

RECURSIVE TextLess(_, _)
\* x < y for two texts.
TextLess(x, y) ==
    IF y = <<>> THEN FALSE
    ELSE IF x = <<>> THEN TRUE
    ELSE IF Head(x) = Head(y) THEN TextLess(Tail(x), Tail(y))
    ELSE IndexIn(Head(x), CodePoints, 1) < IndexIn(Head(y), CodePoints, 1)

\* The group keys of df.groupby('plan_name'): the names the column holds,
\* missing ones left out.
GroupKeys(df) ==
    {df.rows[i]["plan_name"].v : i \in {j \in 1..Len(df.rows) :
                                            df.rows[j]["plan_name"].t = "str"}}

RECURSIVE Sorted(_)
\* The keys in ascending order.
Sorted(keys) ==
    IF keys = {} THEN <<>>
    ELSE <<CHOOSE k \in keys : \A o \in keys \ {k} : TextLess(k, o)>>
         \o Sorted(keys \ {CHOOSE k \in keys : \A o \in keys \ {k} : TextLess(k, o)})

\* The rows of one group.
Group(df, key) ==
    SelectSeq(df.rows, LAMBDA r : r["plan_name"].t = "str" /\ r["plan_name"].v = key)

\* The numbers a column holds in the given rows, missing ones left out.
Present(rows, col) ==
    SelectSeq([i \in 1..Len(rows) |-> rows[i][col]], LAMBDA c : IsNum(c))

RECURSIVE Sum(_)
\* The sum of a sequence of number cells.
Sum(cells) ==
    IF cells = <<>> THEN Whole(0) ELSE RatioAdd(Head(cells).v, Sum(Tail(cells)))

\* n / d rounded to the nearest integer, a tie to the even one; d > 0.
RoundHalfEven(n, d) ==
    IF 2 * (n % d) < d THEN n \div d
    ELSE IF 2 * (n % d) > d THEN (n \div d) + 1
    ELSE IF (n \div d) % 2 = 0 THEN n \div d ELSE (n \div d) + 1

\* .round(2) on a number: hundredths, the nearest, a tie to the even one.
Round2(r) ==
    Ratio((r.num \div r.den) * 100 + RoundHalfEven((r.num % r.den) * 100, r.den), 100)

\* 'count': the cells of the column that are not missing.
Count(rows, col) ==
    IntCell(Len(SelectSeq([i \in 1..Len(rows) |-> rows[i][col]], LAMBDA c : ~IsNa(c))))

\* 'mean' of the present numbers, NaN when there is none.
MeanOf(cells) ==
    IF cells = <<>> THEN NaN ELSE NumCell(Round2(RatioDiv(Sum(cells), Whole(Len(cells)))))
Mean(rows, col) == MeanOf(Present(rows, col))

\* 'sum'
Total(rows, col) == NumCell(Round2(Sum(Present(rows, col))))

\* The columns the aggregation of _create_plan_performance reads.
AggregatedCols ==
    <<"customer_id", "average_monthly_revenue", "regular_users", "monthly_active_users",
      "contacts", "workflows">>

PlanMetricsCols ==
    <<"plan_name", "customer_count", "avg_revenue", "total_revenue", "avg_regular_users",
      "avg_monthly_active", "avg_contacts", "avg_workflows">>

\* One row of plan_metrics.reset_index().
PlanMetrics(key, rows) ==
    [plan_name |-> StrCell(key),
     customer_count |-> Count(rows, "customer_id"),
     avg_revenue |-> Mean(rows, "average_monthly_revenue"),
     total_revenue |-> Total(rows, "average_monthly_revenue"),
     avg_regular_users |-> Mean(rows, "regular_users"),
     avg_monthly_active |-> Mean(rows, "monthly_active_users"),
     avg_contacts |-> Mean(rows, "contacts"),
     avg_workflows |-> Mean(rows, "workflows")]

\* The frame of the groups, one row per key in ascending order.
GroupedBy(df, keys) ==
    Table(PlanMetricsCols,
          SubSeq([k \in 1..Len(keys) |-> PlanMetrics(keys[k], Group(df, keys[k]))],
                 1, Len(keys)))

\* _create_plan_performance(df): agg raises for a column the frame lacks.
CreatePlanPerformance(df) ==
    IF ~HasColumn(df, "plan_name") THEN Returns(EmptyFrame)
    ELSE IF \E k \in 1..Len(AggregatedCols) : ~HasColumn(df, AggregatedCols[k])
    THEN Raises("KeyError: Column(s) do not exist")
    ELSE Returns(GroupedBy(df, Sorted(GroupKeys(df))))

RevenueCols ==
    <<"customer_id", "customer_name", "plan_name", "average_monthly_revenue",
      "payment_frequency", "billings", "months_since_active">>

\* np.where(payment_frequency == 'Yearly', revenue, revenue * 12) on one row.
EstimatedAnnualRevenue(row) ==
    IF ~IsNum(row["average_monthly_revenue"]) THEN NaN
    ELSE IF /\ row["payment_frequency"].t = "str"
            /\ row["payment_frequency"].v = <<"Y","e","a","r","l","y">>
    THEN row["average_monthly_revenue"]
    ELSE NumCell(RatioMul(row["average_monthly_revenue"].v, Whole(12)))

\* _create_revenue_analysis(df)
CreateRevenueAnalysis(df) ==
    IF ~HasColumn(df, "average_monthly_revenue") THEN Returns(EmptyFrame)
    ELSE IF HasColumn(df, "payment_frequency")
    THEN Returns(WithColumn(Project(df, RevenueCols), "estimated_annual_revenue",
                            [i \in 1..Len(df.rows) |-> EstimatedAnnualRevenue(df.rows[i])]))
    ELSE Returns(Project(df, RevenueCols))

UsageCols ==
    <<"customer_id", "plan_name", "regular_users", "monthly_active_users", "contacts",
      "workflows", "integrations", "saved_replies">>

\* np.where(below != 0, above / below, 0): the quotient for every divisor
\* but zero.
QuotientUnlessZero(above, below) ==
    IF IsNum(below) /\ below.v.num # 0
    THEN (IF IsNum(above) THEN NumCell(RatioDiv(above.v, below.v)) ELSE NaN)
    ELSE IntCell(0)

\* np.where(below > 0, above / below, 0) on one row: both branches are
\* computed for every row and none raises; a comparison with a missing value
\* is false.
QuotientOrZero(above, below) ==
    IF IsNum(below) /\ RatioLess(Whole(0), below.v)
    THEN (IF IsNum(above) THEN NumCell(RatioDiv(above.v, below.v)) ELSE NaN)
    ELSE IntCell(0)

\* The second ratio of _create_usage_patterns.
WithContactsPerWorkflow(df, usage) ==
    IF HasColumn(df, "contacts") /\ HasColumn(df, "workflows")
    THEN WithColumn(usage, "contacts_per_workflow",
                    [i \in 1..Len(df.rows) |->
                        QuotientOrZero(df.rows[i]["contacts"], df.rows[i]["workflows"])])
    ELSE usage

\* The first ratio of _create_usage_patterns.
WithUserActivationRate(df, usage) ==
    IF HasColumn(df, "monthly_active_users") /\ HasColumn(df, "regular_users")
    THEN WithColumn(usage, "user_activation_rate",
                    [i \in 1..Len(df.rows) |->
                        QuotientOrZero(df.rows[i]["monthly_active_users"],
                                       df.rows[i]["regular_users"])])
    ELSE usage

\* _create_usage_patterns(df)
CreateUsagePatterns(df) ==
    Returns(WithContactsPerWorkflow(df, WithUserActivationRate(df, Project(df, UsageCols))))

ViewNames ==
    <<"customer_summary", "activity_metrics", "plan_performance", "revenue_analysis",
      "usage_patterns">>

\* The derivation of one view.
CreateView(name, df) ==
    CASE name = "customer_summary" -> CreateCustomerSummary(df)
      [] name = "activity_metrics" -> CreateActivityMetrics(df)
      [] name = "plan_performance" -> CreatePlanPerformance(df)
      [] name = "revenue_analysis" -> CreateRevenueAnalysis(df)
      [] name = "usage_patterns" -> CreateUsagePatterns(df)

\* What create_analytical_views hands back: the views, or the exception of the
\* first derivation that raises.
CreateAnalyticalViews(unified_data) ==
    IF \E k \in 1..Len(ViewNames) : CreateView(ViewNames[k], unified_data).raised
    THEN [raised |-> TRUE,
          msg |-> CreateView(ViewNames[CHOOSE k \in 1..Len(ViewNames) :
                                 /\ CreateView(ViewNames[k], unified_data).raised
                                 /\ \A j \in 1..(k - 1) :
                                        ~CreateView(ViewNames[j], unified_data).raised],
                             unified_data).msg,
          views |-> <<>>]
    ELSE [raised |-> FALSE, msg |-> "",
          views |-> [n \in {ViewNames[k] : k \in 1..Len(ViewNames)} |->
                        CreateView(n, unified_data).df]]

\* n_customers: the rows of a sample table.  The source draws 100; the tables
\* here are cut to this many rows, drawn the same way.
n_customers == 6

RECURSIVE Padded(_, _)
\* The digits of n >= 0 on at least width places, zeros in front (%0<width>d).
Padded(n, width) ==
    IF width <= 1 THEN IntText(n)
    ELSE IF n < PowerOfTen(width - 1) THEN <<"0">> \o Padded(n, width - 1)
    ELSE IntText(n)

\* f"CUST_{i:04d}"
CustomerId(i) == <<"C","U","S","T","_">> \o Padded(i, 4)

RECURSIVE DayAfter(_, _, _, _)
\* The day k days after year y, month m, day d (freq='D').
DayAfter(y, m, d, k) ==
    IF k = 0 THEN <<y, m, d>>
    ELSE IF d < DaysInMonth(y, m) THEN DayAfter(y, m, d + 1, k - 1)
    ELSE IF m < 12 THEN DayAfter(y, m + 1, 1, k - 1)
    ELSE DayAfter(y + 1, 1, 1, k - 1)

\* strftime('%Y-%m-%d')
DateText(day) == Padded(day[1], 4) \o <<"-">> \o Padded(day[2], 2) \o <<"-">> \o Padded(day[3], 2)

\* The i-th text of pd.date_range(start, periods, freq='D').strftime(...).
DateRange(y, m, d, i) == StrCell(DateText(DayAfter(y, m, d, i - 1)))

\* The value below n that the k-th draw from generator state s gives.  The
\* generator is deterministic: the value is a function of the seed and of the
\* position of the draw.
Uniform(s, k, n) == (s.seed * 7919 + (s.pos + k) * 104729) % n

\* np.random.randint(low, high, n_customers)[i] as column number col drawn
\* after the seeding.
RandInt(col, i, low, high) ==
    low + Uniform(SeededRng, (col - 1) * n_customers + i, high - low)

\* np.random.choice(options, n_customers, p=...)[i], the weights in tenths.
RECURSIVE Weigh(_, _, _)
Weigh(options, tenths, at) ==
    IF Len(options) = 1 \/ at < Head(tenths) THEN Head(options)
    ELSE Weigh(Tail(options), Tail(tenths), at - Head(tenths))
RandChoice(col, i, options, tenths) ==
    Weigh(options, tenths, Uniform(SeededRng, (col - 1) * n_customers + i, 10))

\* (np.random.lognormal(6, 0.8, n_customers) * 10).round(2).astype(str)[i]:
\* a positive amount with at most two decimals, printed as a float.
RandRevenue(col, i) ==
    StrCell(NumberText(Ratio(1 + Uniform(SeededRng, (col - 1) * n_customers + i, 1000000),
                             100), TRUE))

SampleCustomersCols == <<"customer_id", "customer_name">>
SampleActivityCols ==
    <<"customer_id", "docs_sites", "mailboxes", "regular_users", "monthly_active_users",
      "paid_users", "contacts", "workflows", "integrations", "beacons", "tags",
      "saved_replies", "light_users", "all_answers_contacts", "all_resolutions">>
SamplePlansCols ==
    <<"customer_id", "payment_frequency", "close_date", "start_date", "end_date",
      "months_since_active", "last_reply_date", "plan_name", "billings",
      "average_monthly_revenue", "advanced_api_access", "api_rate_limit_increase",
      "advanced_security">>

\* .astype(str) on a drawn integer.
IntStr(n) == StrCell(IntText(n))

\* _generate_sample_data(table_name): np.random.seed(42), then the frame of
\* the table, and what the call leaves in the global generator.
GenerateSampleData(table_name) ==
    CASE table_name = "customers" ->
            [df |-> Table(SampleCustomersCols,
                          [i \in 1..n_customers |->
                              [customer_id |-> StrCell(CustomerId(i)),
                               customer_name |-> StrCell(<<"C","u","s","t","o","m","e","r"," ","C","o","m","p","a","n","y"," ">>
                                                         \o IntText(i))]]),
             rng |-> SeededRng]
      [] table_name = "activity" ->
            [df |-> Table(SampleActivityCols,
                          [i \in 1..n_customers |->
                              [customer_id |-> StrCell(CustomerId(i)),
                               docs_sites |-> IntCell(RandInt(1, i, 1, 10)),
                               mailboxes |-> IntCell(RandInt(2, i, 1, 20)),
                               regular_users |-> IntCell(RandInt(3, i, 5, 100)),
                               monthly_active_users |-> IntCell(RandInt(4, i, 3, 80)),
                               paid_users |-> IntCell(RandInt(5, i, 1, 50)),
                               contacts |-> IntStr(RandInt(6, i, 100, 10000)),
                               workflows |-> IntCell(RandInt(7, i, 5, 50)),
                               integrations |-> IntCell(RandInt(8, i, 0, 15)),
                               beacons |-> IntCell(RandInt(9, i, 0, 10)),
                               tags |-> IntStr(RandInt(10, i, 10, 200)),
                               saved_replies |-> IntStr(RandInt(11, i, 5, 100)),
                               light_users |-> IntCell(RandInt(12, i, 0, 20)),
                               all_answers_contacts |-> IntCell(RandInt(13, i, 50, 5000)),
                               all_resolutions |-> IntCell(RandInt(14, i, 20, 2000))]]),
             rng |-> Advance(SeededRng, 14 * n_customers)]
      [] table_name = "plans" ->
            [df |-> Table(SamplePlansCols,
                          [i \in 1..n_customers |->
                              [customer_id |-> StrCell(CustomerId(i)),
                               payment_frequency |->
                                   StrCell(RandChoice(1, i, <<<<"M","o","n","t","h","l","y">>, <<"Y","e","a","r","l","y">>>>,
                                                      <<7, 3>>)),
                               close_date |-> DateRange(2024, 1, 1, i),
                               start_date |-> DateRange(2020, 1, 1, i),
                               end_date |-> DateRange(2025, 1, 1, i),
                               months_since_active |-> IntCell(RandInt(2, i, 1, 48)),
                               last_reply_date |-> DateRange(2024, 8, 1, i),
                               plan_name |->
                                   StrCell(RandChoice(3, i,
                                                      <<<<"B","a","s","i","c">>, <<"S","t","a","n","d","a","r","d">>, <<"P","r","o">>,
                                                        <<"E","n","t","e","r","p","r","i","s","e">>>>, <<3, 4, 2, 1>>)),
                               billings |->
                                   StrCell(RandChoice(4, i,
                                                      <<<<"A","c","t","i","v","e">>, <<"P","a","s","t"," ","D","u","e">>,
                                                        <<"C","a","n","c","e","l","l","e","d">>>>, <<8, 1, 1>>)),
                               average_monthly_revenue |-> RandRevenue(5, i),
                               advanced_api_access |->
                                   IntCell(RandChoice(6, i, <<0, 1>>, <<7, 3>>)),
                               api_rate_limit_increase |->
                                   IntCell(RandChoice(7, i, <<0, 1>>, <<8, 2>>)),
                               advanced_security |->
                                   IntCell(RandChoice(8, i, <<0, 1>>, <<6, 4>>))]]),
             rng |-> Advance(SeededRng, 8 * n_customers)]
      [] OTHER -> [df |-> EmptyFrame, rng |-> SeededRng]

\* ------------------------------------------------------- source files
\* What pd.read_csv finds at the path of a table: no file
\* (FileNotFoundError), a file it cannot read (any other exception), or a
\* file with the frame it parses to.
MissingFile == [state |-> "missing", df |-> EmptyFrame]
UnreadableFile == [state |-> "unreadable", df |-> EmptyFrame]
FileWith(df) == [state |-> "present", df |-> df]

\* customer.csv with a repeated customer_id and names left out.
CustomersFile ==
    Table(<<"customer_id", "customer_name">>,
          <<[customer_id |-> StrCell(<<"C","1">>), customer_name |-> StrCell(<<"A","c","m","e">>)],
            [customer_id |-> StrCell(<<"C","2">>), customer_name |-> NaN],
            [customer_id |-> StrCell(<<"C","1">>), customer_name |-> StrCell(<<"A","c","m","e"," ","A","g","a","i","n">>)],
            [customer_id |-> StrCell(<<"C","3">>), customer_name |-> StrCell(<<"G","a","m","m","a">>)],
            [customer_id |-> StrCell(<<"C","4">>), customer_name |-> StrCell(<<"D","e","l","t","a">>)],
            [customer_id |-> StrCell(<<"C","5">>), customer_name |-> NaN],
            [customer_id |-> StrCell(<<"C","2">>), customer_name |-> StrCell(<<"B","e","t","a">>)],
            [customer_id |-> StrCell(<<"C","6">>), customer_name |-> StrCell(<<"Z","e","t","a">>)]>>)

\* customer.csv without the customer_name column.
CustomersFileUnnamed ==
    Table(<<"customer_id">>,
          <<[customer_id |-> StrCell(<<"C","1">>)], [customer_id |-> StrCell(<<"C","2">>)]>>)

\* customer_activity.csv with missing, non-numeric and negative cells, a
\* repeated customer_id, a customer_id of no customer, and no row for C5.
ActivityFile ==
    Table(<<"customer_id", "regular_users", "monthly_active_users", "paid_users",
            "contacts", "workflows", "integrations", "beacons", "saved_replies">>,
          <<[customer_id |-> StrCell(<<"C","1">>), regular_users |-> IntCell(10),
             monthly_active_users |-> IntCell(3), paid_users |-> StrCell(<<"2">>),
             contacts |-> StrCell(<<"1","2","0">>), workflows |-> IntCell(4),
             integrations |-> IntCell(1), beacons |-> IntCell(0),
             saved_replies |-> StrCell(<<"5">>)],
            [customer_id |-> StrCell(<<"C","2">>), regular_users |-> IntCell(5),
             monthly_active_users |-> IntCell(9), paid_users |-> StrCell(<<"7">>),
             contacts |-> StrCell(<<"a","b","c">>), workflows |-> IntCell(0),
             integrations |-> NaN, beacons |-> IntCell(2),
             saved_replies |-> NaN],
            [customer_id |-> StrCell(<<"C","3">>), regular_users |-> NaN,
             monthly_active_users |-> IntCell(4), paid_users |-> StrCell(<<"x">>),
             contacts |-> StrCell(<<"1","2",".","7">>), workflows |-> NaN,
             integrations |-> IntCell(3), beacons |-> NaN,
             saved_replies |-> StrCell(<<"-","2",".","7">>)],
            [customer_id |-> StrCell(<<"C","4">>), regular_users |-> IntCell(-5),
             monthly_active_users |-> IntCell(2), paid_users |-> StrCell(<<"-","7">>),
             contacts |-> StrCell(<<"3","0">>), workflows |-> IntCell(-2),
             integrations |-> IntCell(0), beacons |-> IntCell(0),
             saved_replies |-> StrCell(<<"1">>)],
            [customer_id |-> StrCell(<<"C","1">>), regular_users |-> IntCell(0),
             monthly_active_users |-> IntCell(0), paid_users |-> NaN,
             contacts |-> StrCell(<<"7">>), workflows |-> IntCell(2),
             integrations |-> IntCell(0), beacons |-> IntCell(0),
             saved_replies |-> StrCell(<<"0">>)],
            [customer_id |-> StrCell(<<"C","6">>), regular_users |-> IntCell(8),
             monthly_active_users |-> IntCell(6), paid_users |-> StrCell(<<"1">>),
             contacts |-> StrCell(<<"4","5">>), workflows |-> IntCell(3),
             integrations |-> IntCell(2), beacons |-> IntCell(1),
             saved_replies |-> StrCell(<<"3">>)],
            [customer_id |-> StrCell(<<"C","9">>), regular_users |-> IntCell(7),
             monthly_active_users |-> IntCell(7), paid_users |-> StrCell(<<"1">>),
             contacts |-> StrCell(<<"9">>), workflows |-> IntCell(1),
             integrations |-> IntCell(1), beacons |-> IntCell(1),
             saved_replies |-> StrCell(<<"2">>)]>>)

\* customer_activity.csv without the integrations and beacons columns.
ActivityFileNarrow ==
    Table(<<"customer_id", "regular_users", "monthly_active_users", "contacts",
            "workflows">>,
          <<[customer_id |-> StrCell(<<"C","1">>), regular_users |-> IntCell(10),
             monthly_active_users |-> IntCell(12), contacts |-> IntCell(40),
             workflows |-> IntCell(5)],
            [customer_id |-> StrCell(<<"C","3">>), regular_users |-> IntCell(4),
             monthly_active_users |-> IntCell(1), contacts |-> IntCell(8),
             workflows |-> IntCell(0)]>>)

\* customer_activity.csv with the user counts only.
ActivityFileUsers ==
    Table(<<"customer_id", "regular_users", "monthly_active_users">>,
          <<[customer_id |-> StrCell(<<"C","1">>), regular_users |-> IntCell(10),
             monthly_active_users |-> IntCell(2)],
            [customer_id |-> StrCell(<<"C","2">>), regular_users |-> IntCell(0),
             monthly_active_users |-> IntCell(0)]>>)

\* plan.csv with revenue written as currency, as plain numbers, negative and
\* unparseable, a repeated customer_id and a customer_id of no customer.
PlansFile ==
    Table(<<"customer_id", "payment_frequency", "close_date", "plan_name", "billings",
            "average_monthly_revenue", "months_since_active", "advanced_api_access">>,
          <<[customer_id |-> StrCell(<<"C","1">>), payment_frequency |-> StrCell(<<"M","o","n","t","h","l","y">>),
             close_date |-> StrCell(<<"2","0","2","4","-","0","1","-","1","5">>), plan_name |-> StrCell(<<"p","r","o">>),
             billings |-> StrCell(<<"A","c","t","i","v","e">>),
             average_monthly_revenue |-> StrCell(<<"$","1",",","2","0","0">>),
             months_since_active |-> IntCell(3), advanced_api_access |-> IntCell(1)],
            [customer_id |-> StrCell(<<"C","2">>), payment_frequency |-> StrCell(<<"Y","e","a","r","l","y">>),
             close_date |-> StrCell(<<"2","0","2","4","-","0","2","-","3","0">>), plan_name |-> StrCell(<<"B","A","S","I","C">>),
             billings |-> StrCell(<<"P","a","s","t"," ","D","u","e">>),
             average_monthly_revenue |-> StrCell(<<"1","0","0">>),
             months_since_active |-> IntCell(5), advanced_api_access |-> IntCell(0)],
            [customer_id |-> StrCell(<<"C","3">>), payment_frequency |-> StrCell(<<"M","o","n","t","h","l","y">>),
             close_date |-> NaN, plan_name |-> StrCell(<<"G","o","l","d">>),
             billings |-> StrCell(<<"A","c","t","i","v","e">>),
             average_monthly_revenue |-> StrCell(<<"5","0","0">>),
             months_since_active |-> IntCell(1), advanced_api_access |-> IntCell(0)],
            [customer_id |-> StrCell(<<"C","4">>), payment_frequency |-> StrCell(<<"Y","e","a","r","l","y">>),
             close_date |-> StrCell(<<"2","0","2","3","-","1","2","-","3","1">>), plan_name |-> StrCell(<<"S","t","a","n","d","a","r","d">>),
             billings |-> StrCell(<<"C","a","n","c","e","l","l","e","d">>),
             average_monthly_revenue |-> StrCell(<<"$","2",",","0","0","0",".","0","0">>),
             months_since_active |-> IntCell(40), advanced_api_access |-> IntCell(1)],
            [customer_id |-> StrCell(<<"C","5">>), payment_frequency |-> NaN,
             close_date |-> StrCell(<<"s","o","o","n">>), plan_name |-> NaN,
             billings |-> StrCell(<<"A","c","t","i","v","e">>),
             average_monthly_revenue |-> StrCell(<<"9","9",".","9","9">>),
             months_since_active |-> IntCell(2), advanced_api_access |-> IntCell(0)],
            [customer_id |-> StrCell(<<"C","1">>), payment_frequency |-> StrCell(<<"M","o","n","t","h","l","y">>),
             close_date |-> StrCell(<<"2","0","2","4","-","0","3","-","0","1">>), plan_name |-> StrCell(<<"P","r","o">>),
             billings |-> StrCell(<<"A","c","t","i","v","e">>),
             average_monthly_revenue |-> StrCell(<<"-","5","0">>),
             months_since_active |-> IntCell(3), advanced_api_access |-> IntCell(1)],
            [customer_id |-> StrCell(<<"C","6">>), payment_frequency |-> StrCell(<<"M","o","n","t","h","l","y">>),
             close_date |-> StrCell(<<"2","0","2","4","-","0","5","-","0","5">>), plan_name |-> StrCell(<<"S","t","a","n","d","a","r","d">>),
             billings |-> StrCell(<<"A","c","t","i","v","e">>),
             average_monthly_revenue |-> StrCell(<<"5","0","0",".","0","1">>),
             months_since_active |-> IntCell(6), advanced_api_access |-> IntCell(0)],
            [customer_id |-> StrCell(<<"C","8">>), payment_frequency |-> StrCell(<<"Y","e","a","r","l","y">>),
             close_date |-> StrCell(<<"2","0","2","4","-","0","6","-","0","1">>), plan_name |-> StrCell(<<"e","n","t","e","r","p","r","i","s","e">>),
             billings |-> StrCell(<<"A","c","t","i","v","e">>),
             average_monthly_revenue |-> StrCell(<<"a","b","c">>),
             months_since_active |-> IntCell(9), advanced_api_access |-> IntCell(0)],
            [customer_id |-> StrCell(<<"C","9">>), payment_frequency |-> StrCell(<<"Y","e","a","r","l","y">>),
             close_date |-> StrCell(<<"2","0","2","4","-","0","6","-","0","2">>), plan_name |-> StrCell(<<"B","a","s","i","c">>),
             billings |-> StrCell(<<"A","c","t","i","v","e">>),
             average_monthly_revenue |-> NaN,
             months_since_active |-> IntCell(9), advanced_api_access |-> IntCell(0)]>>)

\* plan.csv with a numeric revenue column and without plan_name and
\* payment_frequency.
PlansFileNumeric ==
    Table(<<"customer_id", "billings", "average_monthly_revenue">>,
          <<[customer_id |-> StrCell(<<"C","1">>), billings |-> StrCell(<<"A","c","t","i","v","e">>),
             average_monthly_revenue |-> NumCell(Ratio(9999, 100))],
            [customer_id |-> StrCell(<<"C","2">>), billings |-> StrCell(<<"A","c","t","i","v","e">>),
             average_monthly_revenue |-> IntCell(2000)],
            [customer_id |-> StrCell(<<"C","3">>), billings |-> NaN,
             average_monthly_revenue |-> NaN],
            [customer_id |-> StrCell(<<"C","4">>), billings |-> StrCell(<<"P","a","s","t"," ","D","u","e">>),
             average_monthly_revenue |-> NumCell(Ratio(20001, 10))]>>)

\* plan.csv whose customer_id column holds numbers, and whose plan_name
\* column is empty.
PlansFileNumbered ==
    Table(<<"customer_id", "plan_name", "average_monthly_revenue">>,
          <<[customer_id |-> IntCell(1), plan_name |-> NaN,
             average_monthly_revenue |-> IntCell(10)],
            [customer_id |-> IntCell(2), plan_name |-> NaN,
             average_monthly_revenue |-> IntCell(20)]>>)

\* plan.csv whose customer_id column holds numbers.
PlansFileKeyed ==
    Table(<<"customer_id", "average_monthly_revenue">>,
          <<[customer_id |-> IntCell(1), average_monthly_revenue |-> IntCell(10)],
            [customer_id |-> IntCell(2), average_monthly_revenue |-> IntCell(20)]>>)

\* The files each path may hold.  customer.csv may also hold what
\* _generate_sample_data('customers') returns, written out as it is.
FilesAt ==
    [customers |-> {MissingFile, UnreadableFile, FileWith(CustomersFile),
                    FileWith(CustomersFileUnnamed),
                    FileWith(GenerateSampleData("customers").df)},
     activity |-> {MissingFile, UnreadableFile, FileWith(ActivityFile),
                   FileWith(ActivityFileNarrow), FileWith(ActivityFileUsers)},
     plans |-> {MissingFile, UnreadableFile, FileWith(PlansFile),
                FileWith(PlansFileNumeric), FileWith(PlansFileNumbered),
                FileWith(PlansFileKeyed)}]

\* Every combination of files.
Files ==
    {[customers |-> c, activity |-> a, plans |-> p] :
        c \in FilesAt.customers, a \in FilesAt.activity, p \in FilesAt.plans}

\* The table load_raw_data stores for one name: the frame of the file, or
\* sample data when reading raised.
LoadTable(table_name, file) ==
    IF file.state = "present" THEN file.df ELSE GenerateSampleData(table_name).df

\* The generator after the loop over file_mapping: every synthesized table
\* seeds it and draws from it, the last one stays.
LoadedRng(files, rng) ==
    IF files["plans"].state # "present" THEN GenerateSampleData("plans").rng
    ELSE IF files["activity"].state # "present" THEN GenerateSampleData("activity").rng
    ELSE IF files["customers"].state # "present" THEN GenerateSampleData("customers").rng
    ELSE rng

\* load_raw_data(): what it returns (and stores in raw_data), and the
\* generator it leaves.  No exception leaves the loop.
LoadRawData(files, rng) ==
    [raised |-> FALSE,
     loaded |-> [n \in {TableNames[k] : k \in 1..Len(TableNames)} |->
                    LoadTable(n, files[n])],
     rng |-> LoadedRng(files, rng)]

\* --------------------------------------------------------------- inputs

\* The words and phrases questions are put together from.
Atoms ==
    << <<"t","o","p">>, <<"t","o","p"," ","1","0"," ","c","u","s","t","o","m","e","r","s">>, <<"r","e","v","e","n","u","e">>, <<"r","i","s","k"," ","c","u","s","t","o","m","e","r","s">>,
       <<"c","o","r","r","e","l","a","t","i","o","n"," ","w","i","t","h"," ","u","s","a","g","e">>, <<"p","l","a","n"," ","a","n","a","l","y","s","i","s">>, <<"u","s","a","g","e"," ","p","a","t","t","e","r","n","s">>,
       <<"a","p","i"," ","r","a","t","e">>, <<"n","e","w">>, <<"T","e","l","l"," ","m","e"," ","a","b","o","u","t">>, <<"P","r","o">>, <<" ">> >>

\* The longest question, in atoms.
MaxAtoms == 2

\* The customers of the largest data set.
MaxCustomers == 12

\* The calls of process_query made on one router.
MaxCalls == 3

RECURSIVE JoinAtoms(_)
\* The atoms at the given indices, joined by single spaces.
JoinAtoms(ix) ==
    IF ix = <<>> THEN <<>>
    ELSE IF Len(ix) = 1 THEN Atoms[ix[1]]
    ELSE Atoms[ix[1]] \o <<" ">> \o JoinAtoms(Tail(ix))

RECURSIVE IndexSeqs(_)
\* Every sequence of at most n atom indices.
IndexSeqs(n) ==
    IF n = 0 THEN {<<>>}
    ELSE LET shorter == IndexSeqs(n - 1)
         IN  shorter \cup {Append(s, a) : s \in {x \in shorter : Len(x) = n - 1},
                                          a \in 1..Len(Atoms)}

\* The questions of the end-to-end scenarios A, B and C.
ScenarioA == <<"W","h","o"," ","a","r","e"," ","t","h","e"," ","t","o","p"," ","1","0"," ","c","u","s","t","o","m","e","r","s"," ","b","y"," ","r","e","v","e","n","u","e","?">>
ScenarioB == <<"T","e","l","l"," ","m","e"," ","a","b","o","u","t"," ","P","r","o"," ","c","u","s","t","o","m","e","r","s">>
ScenarioC == <<"a","s","d","k","f","j"," ","r","a","n","d","o","m"," ","t","e","x","t">>
ScenarioQuestions == {ScenarioA, ScenarioB, ScenarioC}

\* get_example_questions()
GetExampleQuestions ==
    << <<"W","h","o"," ","a","r","e"," ","t","h","e"," ","t","o","p"," ","1","0"," ","c","u","s","t","o","m","e","r","s"," ","b","y"," ","r","e","v","e","n","u","e","?">>,
       <<"S","h","o","w"," ","m","e"," ","u","s","a","g","e"," ","p","a","t","t","e","r","n","s"," ","a","c","r","o","s","s"," ","d","i","f","f","e","r","e","n","t"," ","p","l","a","n","s">>,
       <<"W","h","i","c","h"," ","c","u","s","t","o","m","e","r","s"," ","h","a","v","e"," ","t","h","e"," ","h","i","g","h","e","s","t"," ","e","n","g","a","g","e","m","e","n","t"," ","r","a","t","e","s","?">>,
       <<"F","i","n","d"," ","c","u","s","t","o","m","e","r","s"," ","a","t"," ","r","i","s","k"," ","o","f"," ","c","h","u","r","n","i","n","g"," ","b","a","s","e","d"," ","o","n"," ","a","c","t","i","v","i","t","y">>,
       <<"W","h","a","t","'","s"," ","t","h","e"," ","a","v","e","r","a","g","e"," ","m","o","n","t","h","l","y"," ","r","e","v","e","n","u","e"," ","b","y"," ","p","l","a","n"," ","t","y","p","e","?">>,
       <<"S","h","o","w"," ","m","e"," ","w","o","r","k","f","l","o","w"," ","u","s","a","g","e"," ","c","o","r","r","e","l","a","t","i","o","n"," ","w","i","t","h"," ","c","u","s","t","o","m","e","r"," ","r","e","v","e","n","u","e">>,
       <<"W","h","i","c","h"," ","S","t","a","n","d","a","r","d"," ","p","l","a","n"," ","c","u","s","t","o","m","e","r","s"," ","u","s","e"," ","t","h","e"," ","m","o","s","t"," ","i","n","t","e","g","r","a","t","i","o","n","s","?">>,
       <<"F","i","n","d"," ","h","i","g","h","-","r","e","v","e","n","u","e"," ","c","u","s","t","o","m","e","r","s"," ","w","i","t","h"," ","l","o","w"," ","u","s","e","r"," ","a","c","t","i","v","a","t","i","o","n">>,
       <<"W","h","a","t","'","s"," ","t","h","e"," ","f","e","a","t","u","r","e"," ","a","d","o","p","t","i","o","n"," ","r","a","t","e"," ","a","c","r","o","s","s"," ","p","l","a","n"," ","t","y","p","e","s","?">>,
       <<"S","h","o","w"," ","m","e"," ","c","u","s","t","o","m","e","r"," ","l","i","f","e","c","y","c","l","e"," ","a","n","a","l","y","s","i","s"," ","b","y"," ","m","o","n","t","h","s"," ","a","c","t","i","v","e">>,
       <<"W","h","i","c","h"," ","c","u","s","t","o","m","e","r","s"," ","h","a","v","e"," ","a","d","v","a","n","c","e","d"," ","A","P","I"," ","a","c","c","e","s","s"," ","e","n","a","b","l","e","d","?">>,
       <<"C","o","m","p","a","r","e"," ","c","o","n","t","a","c","t","s"," ","p","e","r"," ","w","o","r","k","f","l","o","w"," ","a","c","r","o","s","s"," ","d","i","f","f","e","r","e","n","t"," ","p","l","a","n","s">>,
       <<"F","i","n","d"," ","E","n","t","e","r","p","r","i","s","e"," ","c","u","s","t","o","m","e","r","s"," ","w","i","t","h"," ","b","i","l","l","i","n","g"," ","i","s","s","u","e","s">>,
       <<"S","h","o","w"," ","m","e"," ","t","h","e"," ","d","i","s","t","r","i","b","u","t","i","o","n"," ","o","f"," ","r","e","g","u","l","a","r"," ","v","s"," ","a","c","t","i","v","e"," ","u","s","e","r","s">>,
       <<"W","h","i","c","h"," ","p","l","a","n"," ","g","e","n","e","r","a","t","e","s"," ","t","h","e"," ","m","o","s","t"," ","t","o","t","a","l"," ","r","e","v","e","n","u","e","?">> >>

\* The inputs of process_query: every question of at most MaxAtoms atoms
\* (the empty string and pure whitespace among them), the scenario questions
\* and a value that is no str.
Questions ==
    {JoinAtoms(ix) : ix \in IndexSeqs(MaxAtoms)} \cup ScenarioQuestions \cup {NoneQuestion}

PlanNames == <<<<"B","a","s","i","c">>, <<"S","t","a","n","d","a","r","d">>, <<"P","r","o">>, <<"E","n","t","e","r","p","r","i","s","e">>>>

\* The tables create_tables is given: customers, plans and activity, one row
\* per customer 1..n, in table order.
Customers(n) == [i \in 1..n |-> [customer_id |-> i, customer_name |-> i]]
Plans(n, revenue) ==
    [i \in 1..n |->
        [customer_id |-> i,
         plan_name |-> PlanNames[(i % 4) + 1],
         average_monthly_revenue |-> revenue[i],
         billings |-> IF i % 3 = 0 THEN "Past Due" ELSE "Active",
         months_since_active |-> 3 * i]]
Activity(n) ==
    [i \in 1..n |->
        [customer_id |-> i,
         regular_users |-> 10,
         monthly_active_users |-> (5 * i) % 11,
         contacts |-> 10 * i,
         workflows |-> i % 3,
         integrations |-> i % 2]]

SmallRevenue == <<500, 2000, 100>>
\* Revenues in no particular order; the first two differ by less than single
\* precision can tell apart.
LargeRevenue ==
    [i \in 1..MaxCustomers |->
        IF i = 1 THEN 2^24 ELSE IF i = 2 THEN 2^24 + 1 ELSE ((5 * i) % 7) * 100 + i]

Mapping(n, revenue) ==
    [name \in {"customers", "plans", "activity"} |->
        CASE name = "customers" -> Customers(n)
          [] name = "plans" -> Plans(n, revenue)
          [] name = "activity" -> Activity(n)]

EmptyData == Mapping(0, SmallRevenue)
SmallData == Mapping(3, SmallRevenue)
LargeData == Mapping(MaxCustomers, LargeRevenue)
DataSets == {EmptyData, SmallData, LargeData}

\* -------------------------------------------------------- state machine

VARIABLES
    query_patterns,  \* ConversationalInterface.query_patterns
    db_manager,      \* ConversationalInterface.db_manager: Null or the manager
    duckdb_tables,   \* the tables of the manager's DuckDB connection
    rng,             \* the state of numpy's global generator
    pc,              \* "idle", "ready" (process_query called), "done" (returned)
    question,        \* the argument of the call
    outcome,         \* Null, or how the call ended: [raised, value]
    trace,           \* what the call did: [route, issued, failed]
    calls,           \* the calls of process_query that have returned
    files,           \* what the three paths of DataProcessor.file_mapping hold
    raw_data,        \* DataProcessor.raw_data: Null or the loaded tables
    cleaned_data,    \* Null or what clean_data returned last
    unified_data,    \* Null or what create_unified_dataset returned
    processed_data,  \* DataProcessor.processed_data: Null or the tables stored
    stage,           \* "start", "loaded", "cleaned", "unified", "done", "failed"
    failure,         \* the exception that ended the pipeline, "" when none
    clean_runs,      \* the calls of clean_data that have returned
    sqlite_tables,   \* the tables of the manager's SQLite database
    loading,         \* Null, or the create_tables call in progress
    loaded,          \* Null, or how the last create_tables call ended
    query,           \* the statement text passed to the manager last
    validation,      \* Null, or what validate_query returned for it
    executed,        \* Null, or how execute_query ended for it
    joined,          \* Null, or a row of the customers-plans-activity join
    selected         \* Null, or what the at-risk statement made of the row

router == <<query_patterns, db_manager, duckdb_tables, pc, question, outcome, trace, calls>>
pipeline == <<files, raw_data, cleaned_data, unified_data, processed_data, stage, failure,
              clean_runs>>
manager == <<sqlite_tables, loading, loaded, query, validation, executed>>
risk == <<joined, selected>>
vars == <<query_patterns, db_manager, duckdb_tables, rng, pc, question, outcome, trace,
          calls, files, raw_data, cleaned_data, unified_data, processed_data, stage,
          failure, clean_runs, sqlite_tables, loading, loaded, query, validation,
          executed, joined, selected>>

NoTrace == [route |-> NotRouted, issued |-> <<>>, failed |-> FALSE]

\* A DataProcessor as constructed: nothing loaded, nothing processed.
Constructed ==
    /\ raw_data = Null
    /\ cleaned_data = Null
    /\ unified_data = Null
    /\ processed_data = Null
    /\ stage = "start"
    /\ failure = ""
    /\ clean_runs = 0

\* A DatabaseManager as constructed on a new database file: neither store
\* holds a table, no call has been made; and no row is under evaluation.
Opened ==
    /\ sqlite_tables = <<>>
    /\ loading = Null
    /\ loaded = Null
    /\ query = <<>>
    /\ validation = Null
    /\ executed = Null
    /\ joined = Null
    /\ selected = Null

\* The router as constructed, with or without a database manager whose DuckDB
\* connection holds no table yet.
Init ==
    /\ query_patterns = PatternTable
    /\ db_manager \in {Null, Some("DatabaseManager")}
    /\ duckdb_tables = <<>>
    /\ rng = UnseededRng
    /\ pc = "idle"
    /\ question = <<>>
    /\ outcome = Null
    /\ trace = NoTrace
    /\ calls = 0
    /\ files = [customers |-> MissingFile, activity |-> MissingFile, plans |-> MissingFile]
    /\ Constructed
    /\ Opened

\* DatabaseManager.create_tables(tables): to_sql(if_exists='replace') and
\* CREATE OR REPLACE TABLE for every table of the mapping; the tables it does
\* not name stay.
Replaced(store, tables) ==
    [name \in DOMAIN store \cup DOMAIN tables |->
        IF name \in DOMAIN tables THEN tables[name] ELSE store[name]]

\* A call of create_tables that runs through the mapping with no exception
\* and no other caller of the manager in between.
CreateTables(tables) ==
    /\ pc = "idle"
    /\ db_manager # Null
    /\ loading = Null
    /\ sqlite_tables' = Replaced(sqlite_tables, tables)
    /\ duckdb_tables' = Replaced(duckdb_tables, tables)
    /\ loaded' = Some([tables |-> tables, raised |-> FALSE])
    /\ UNCHANGED <<query_patterns, db_manager, rng, pc, question, outcome, trace, calls>>
    /\ UNCHANGED <<loading, query, validation, executed>>
    /\ UNCHANGED pipeline
    /\ UNCHANGED risk

\* A caller passes a question to process_query.
Ask(q) ==
    /\ pc = "idle"
    /\ calls < MaxCalls
    /\ question' = q
    /\ pc' = "ready"
    /\ outcome' = Null
    /\ trace' = NoTrace
    /\ UNCHANGED <<query_patterns, db_manager, duckdb_tables, rng, calls>>
    /\ UNCHANGED pipeline
    /\ UNCHANGED <<manager, risk>>

\* process_query runs and returns.
ProcessQueryStep ==
    /\ pc = "ready"
    /\ \E tie \in TieOrders :
         \E r \in {ProcessQuery(question, query_patterns, db_manager, duckdb_tables,
                                rng, tie)} :
             /\ outcome' = Some([raised |-> r.raised, value |-> r.value])
             /\ trace' = [route |-> r.route, issued |-> r.effects.issued,
                          failed |-> r.effects.failed]
             /\ rng' = r.effects.rng
             /\ duckdb_tables' = r.effects.store
    /\ pc' = "done"
    /\ calls' = calls + 1
    /\ UNCHANGED <<query_patterns, db_manager, question>>
    /\ UNCHANGED pipeline
    /\ UNCHANGED <<manager, risk>>

\* The caller has taken the result; the router waits for the next question.
Return ==
    /\ pc = "done"
    /\ pc' = "idle"
    /\ question' = <<>>
    /\ outcome' = Null
    /\ trace' = NoTrace
    /\ UNCHANGED <<query_patterns, db_manager, duckdb_tables, rng, calls>>
    /\ UNCHANGED pipeline
    /\ UNCHANGED <<manager, risk>>

AskAny == \E q \in Questions : Ask(q)
AskScenario == \E q \in ScenarioQuestions \cup {NoneQuestion} : Ask(q)
AskExample == \E k \in 1..Len(GetExampleQuestions) : Ask(GetExampleQuestions[k])
Load == \E tables \in DataSets : CreateTables(tables)

\* One call on a router just constructed, over every question.
Next == Load \/ AskAny \/ ProcessQueryStep
Spec == Init /\ [][Next]_vars

\* Call after call, over the scenario questions and the example questions.
NextHistory == Load \/ AskScenario \/ AskExample \/ ProcessQueryStep \/ Return
SpecHistory == Init /\ [][NextHistory]_vars

\* ------------------------------------------------------- the pipeline
\* DataProcessor.process_all(): load, clean, unify, derive the views, store.
\* An exception of a step leaves process_all; clean_data may be called again
\* on the tables that were loaded.
MaxCleanRuns == 2

\* A processor as constructed, over every combination of source files; the
\* router is there and idle.
InitPipeline ==
    /\ query_patterns = PatternTable
    /\ db_manager = Null
    /\ duckdb_tables = <<>>
    /\ rng = UnseededRng
    /\ pc = "idle"
    /\ question = <<>>
    /\ outcome = Null
    /\ trace = NoTrace
    /\ calls = 0
    /\ files \in Files
    /\ Constructed
    /\ Opened

\* raw_data = self.load_raw_data()
LoadRawDataStep ==
    /\ stage = "start"
    /\ \E r \in {LoadRawData(files, rng)} :
         /\ raw_data' = Some(r.loaded)
         /\ rng' = r.rng
    /\ stage' = "loaded"
    /\ UNCHANGED router
    /\ UNCHANGED <<manager, risk>>
    /\ UNCHANGED <<files, cleaned_data, unified_data, processed_data, failure, clean_runs>>

\* cleaned_data = self.clean_data(raw_data), the first time in process_all,
\* and again by a caller who cleans the same raw tables once more.
CleanDataStep ==
    /\ stage \in {"loaded", "cleaned"}
    /\ clean_runs < MaxCleanRuns
    /\ \E r \in {CleanData(raw_data[1])} :
         /\ raw_data' = Some(r.raw)
         /\ IF r.raised
            THEN /\ stage' = "failed"
                 /\ failure' = r.msg
                 /\ UNCHANGED cleaned_data
            ELSE /\ stage' = "cleaned"
                 /\ cleaned_data' = Some(r.cleaned)
                 /\ UNCHANGED failure
    /\ clean_runs' = clean_runs + 1
    /\ UNCHANGED router
    /\ UNCHANGED <<manager, risk>>
    /\ UNCHANGED <<rng, files, unified_data, processed_data>>

\* unified_data = self.create_unified_dataset(cleaned_data)
CreateUnifiedDatasetStep ==
    /\ stage = "cleaned"
    /\ \E r \in {CreateUnifiedDataset(cleaned_data[1])} :
         IF r.raised
         THEN /\ stage' = "failed"
              /\ failure' = r.msg
              /\ UNCHANGED unified_data
         ELSE /\ stage' = "unified"
              /\ unified_data' = Some(r.df)
              /\ UNCHANGED failure
    /\ UNCHANGED router
    /\ UNCHANGED <<manager, risk>>
    /\ UNCHANGED <<rng, files, raw_data, cleaned_data, processed_data, clean_runs>>

\* {**cleaned_data, 'unified': unified_data, **analytical_views}
Stored(cleaned, unified, views) ==
    [n \in DOMAIN cleaned \cup {"unified"} \cup DOMAIN views |->
        IF n \in DOMAIN views THEN views[n]
        ELSE IF n = "unified" THEN unified
        ELSE cleaned[n]]

\* analytical_views = self.create_analytical_views(unified_data), then
\* self.processed_data = {...} and the return.
CreateAnalyticalViewsStep ==
    /\ stage = "unified"
    /\ \E r \in {CreateAnalyticalViews(unified_data[1])} :
         IF r.raised
         THEN /\ stage' = "failed"
              /\ failure' = r.msg
              /\ UNCHANGED processed_data
         ELSE /\ stage' = "done"
              /\ processed_data' = Some(Stored(cleaned_data[1], unified_data[1], r.views))
              /\ UNCHANGED failure
    /\ UNCHANGED router
    /\ UNCHANGED <<manager, risk>>
    /\ UNCHANGED <<rng, files, raw_data, cleaned_data, unified_data, clean_runs>>

NextPipeline ==
    \/ LoadRawDataStep
    \/ CleanDataStep
    \/ CreateUnifiedDatasetStep
    \/ CreateAnalyticalViewsStep
SpecPipeline == InitPipeline /\ [][NextPipeline]_vars

\* ----------------------------------------------------------- properties

\* The QueryResult the call returned (in a state where pc = "done").
Returned == outcome[1].value

\* Whether the question, lower-cased, matches one of the named patterns.
Matches(names) == \E n \in names : Search(query_patterns[n], Lower(question))

\* Whether the text has the word somewhere in it.
Contains(text, word) == \E i \in 1..Len(text) : HasAt(text, i, word)

\* The order of priority among the intent patterns and the analysis each
\* stands for.
PatternOrder ==
    << [names |-> {"top_customers", "revenue_customers"},
        analysis |-> "top_revenue_customers"],
       [names |-> {"usage_correlation"}, analysis |-> "usage_by_plan"],
       [names |-> {"plan_analysis"}, analysis |-> "plan_performance"],
       [names |-> {"engagement"}, analysis |-> "engagement_analysis"],
       [names |-> {"at_risk"}, analysis |-> "at_risk_customers"],
       [names |-> {"feature_adoption"}, analysis |-> "feature_adoption"],
       [names |-> {"lifecycle"}, analysis |-> "lifecycle_analysis"],
       [names |-> {"customer_insights"}, analysis |-> "customer_insights"] >>

\* The place in PatternOrder of the earliest pattern matching the question,
\* 0 when none matches.
FirstMatch ==
    LET hits == {k \in 1..Len(PatternOrder) : Matches(PatternOrder[k].names)}
    IN  IF hits = {} THEN 0 ELSE CHOOSE k \in hits : \A o \in hits : k <= o

GenericInsights == Len(PatternOrder)

MentionsPlan ==
    \E k \in 1..Len(PlanWords) : Contains(Lower(question), PlanWords[k])

IsText(f) == DOMAIN f = {"template", "args"} /\ f.template \in STRING

\* C1: whatever the input (the empty string, pure whitespace, text matching no
\* pattern, a value that is no str), with or without a backend and whether or
\* not the backend raises, process_query propagates no exception and returns
\* a record with exactly the fields answer, sql, data and error, where answer
\* is a string and error is null or a string.
C1_RouterTotality ==
    pc = "done" =>
        /\ ~outcome[1].raised
        /\ DOMAIN Returned = {"answer", "sql", "data", "error"}
        /\ IsText(Returned.answer)
        /\ \/ Returned.error = Null
           \/ Len(Returned.error) = 1 /\ Returned.error[1] \in STRING

\* A call with a question of pure whitespace, against an attached backend,
\* that returned a well-formed result without an error.
C1_Witness ==
    /\ pc = "done"
    /\ question = <<" ", " ", " ">>
    /\ db_manager # Null
    /\ ~outcome[1].raised
    /\ DOMAIN Returned = {"answer", "sql", "data", "error"}
    /\ Returned.error = Null

\* C2: the analysis selected for a question is that of the earliest pattern,
\* in the order revenue/top-customers, usage-correlation, plan-analysis,
\* engagement, at-risk, feature-adoption, lifecycle, generic-insights, that
\* matches the lower-cased question; a later matching pattern never overrides
\* an earlier one, and a question matching none is routed nowhere.
C2_FirstMatchWins ==
    pc = "done" /\ IsStr(question) =>
        LET k == FirstMatch
        IN  IF k = 0 THEN trace.route.handler = "none"
            ELSE IF k = GenericInsights
            THEN \/ trace.route.handler = "_execute_custom_plan_query"
                 \/ /\ trace.route.handler = "_execute_query"
                    /\ trace.route.query_type = "engagement_analysis"
            ELSE /\ trace.route.handler = "_execute_query"
                 /\ trace.route.query_type = PatternOrder[k].analysis

\* A question matching both the plan-analysis pattern and the later lifecycle
\* pattern was routed to plan_performance.
C2_Witness ==
    /\ pc = "done"
    /\ IsStr(question)
    /\ Matches({"plan_analysis"})
    /\ Matches({"lifecycle"})
    /\ trace.route.query_type = "plan_performance"

\* C3 as stated: every question containing the keyword "top" and the keyword
\* "risk" is dispatched to top_revenue_customers, not to at_risk_customers.
C3_TopAndRiskKeywords ==
    ( /\ pc = "done"
      /\ IsStr(question)
      /\ Contains(Lower(question), <<"t","o","p">>)
      /\ Contains(Lower(question), <<"r","i","s","k">>) )
    => /\ trace.route.handler = "_execute_query"
       /\ trace.route.query_type = "top_revenue_customers"

\* C3 amended: every question that matches a revenue/top-customers pattern
\* and the at-risk pattern is dispatched to top_revenue_customers, not to
\* at_risk_customers.
C3_RevenueBeforeAtRisk ==
    ( /\ pc = "done"
      /\ IsStr(question)
      /\ Matches({"top_customers", "revenue_customers"})
      /\ Matches({"at_risk"}) )
    => /\ trace.route.handler = "_execute_query"
       /\ trace.route.query_type = "top_revenue_customers"

\* A question with the words "top" and "risk" that matches a revenue pattern
\* and the at-risk pattern was dispatched to top_revenue_customers.
C3_Witness ==
    /\ pc = "done"
    /\ IsStr(question)
    /\ Contains(Lower(question), <<"t","o","p">>)
    /\ Contains(Lower(question), <<"r","i","s","k">>)
    /\ Matches({"top_customers", "revenue_customers"})
    /\ Matches({"at_risk"})
    /\ trace.route.query_type = "top_revenue_customers"

\* C4: when the backend is attached and its execute_query raises while
\* running the SQL of the selected analysis, the QueryResult returned has its
\* error field set.
C4_BackendErrorReported ==
    pc = "done" /\ db_manager # Null /\ trace.failed => Returned.error # Null

\* C5: a question matching none of the intent patterns gets the fallback
\* response: data is null, error is null, the answer holds the question as it
\* was typed, and no statement is sent to the backend.
C5_Fallback ==
    pc = "done" /\ IsStr(question) /\ ~Matches(DOMAIN PatternTable) =>
        /\ Returned.data = Null
        /\ Returned.error = Null
        /\ Interpolates(Returned.answer, question)
        /\ trace.issued = <<>>

\* Scenario C, asked with a backend attached, ended in the fallback.
C5_Witness ==
    /\ pc = "done"
    /\ question = ScenarioC
    /\ db_manager # Null
    /\ Returned.data = Null
    /\ Interpolates(Returned.answer, ScenarioC)

\* C6: without a backend, every question matching some intent pattern gets
\* the SQL text of the query selected for it, with data null and error null,
\* under the plan-filtered dispatch as under the catalog entries.
C6_PreviewMode ==
    ( /\ pc = "done"
      /\ IsStr(question)
      /\ db_manager = Null
      /\ Matches(DOMAIN PatternTable) )
    => /\ Returned.sql = trace.route.sql
       /\ Returned.data = Null
       /\ Returned.error = Null

\* C7: the plan-filtered query is dispatched exactly when generic-insights is
\* the first matching pattern and the question names basic, standard, pro or
\* enterprise; generic-insights without a plan name goes to
\* engagement_analysis; and for "Tell me about Pro customers" the statement
\* built has plan_name = 'Pro' in it, is the one sent to an attached backend
\* and is the sql returned when the backend answers.
C7_PlanFilteredDispatch ==
    pc = "done" /\ IsStr(question) =>
        LET k == FirstMatch
            pro == Fmt(PlanFilteredTemplate, <<Txt(<<"P","r","o">>)>>)
        IN  /\ (trace.route.handler = "_execute_custom_plan_query")
                   <=> (k = GenericInsights /\ MentionsPlan)
            /\ (k = GenericInsights /\ ~MentionsPlan)
                   => /\ trace.route.handler = "_execute_query"
                      /\ trace.route.query_type = "engagement_analysis"
            /\ question = ScenarioB
                   => /\ trace.route.sql = Some(pro)
                      /\ db_manager # Null => trace.issued = <<pro>>
                      /\ (db_manager # Null /\ ~trace.failed)
                             => Returned.sql = Some(pro)

\* Scenario B, asked against a loaded backend, returned the statement
\* filtered on plan_name = 'Pro' together with the rows it selected.
C7_Witness ==
    /\ pc = "done"
    /\ question = ScenarioB
    /\ db_manager # Null
    /\ ~trace.failed
    /\ trace.route.handler = "_execute_custom_plan_query"
    /\ Interpolates(Returned.sql[1], <<"P","r","o">>)
    /\ Returned.data # Null

\* C8: for a question routed to top_revenue_customers against a working
\* backend, the data returned has at most 10 rows, in descending order of
\* average_monthly_revenue, whatever the customers and plans tables hold.
C8_TopTenDescending ==
    ( /\ pc = "done"
      /\ IsStr(question)
      /\ db_manager # Null
      /\ trace.route.query_type = "top_revenue_customers"
      /\ ~trace.failed )
    => LET rows == Returned.data[1].rows
       IN  /\ Len(rows) <= 10
           /\ \A i \in 1..Len(rows) : \A j \in 1..Len(rows) :
                  i < j => rows[i].average_monthly_revenue
                               >= rows[j].average_monthly_revenue

\* C9: a call of process_query, whatever calls came before it, returns what
\* the same call returns on a router just constructed against the same
\* backend tables, and leaves the pattern table and the backend reference as
\* they were.
C9_NoStateBetweenCalls ==
    [][ (pc = "ready" /\ pc' = "done") =>
            /\ \E tie \in TieOrders :
                   LET fresh == ProcessQuery(question, PatternTable, db_manager,
                                             duckdb_tables, UnseededRng, tie)
                   IN  outcome' = Some([raised |-> fresh.raised,
                                        value |-> fresh.value])
            /\ query_patterns' = query_patterns
            /\ db_manager' = db_manager ]_vars

\* A later call on the same router, answered from sample data after earlier
\* calls had drawn from the generator.
C9_Witness ==
    /\ pc = "done"
    /\ calls >= 2
    /\ db_manager = Null
    /\ question = ScenarioB
    /\ Returned.data # Null
    /\ rng # UnseededRng

\* C10: every statement process_query sends to the backend is a SELECT, and
\* the backend holds the same tables with the same rows after the call as
\* before it.
C10_ReadOnly ==
    [][ (pc = "ready" /\ pc' = "done") =>
            /\ duckdb_tables' = duckdb_tables
            /\ \A k \in 1..Len(trace'.issued) : IsSelect(trace'.issued[k]) ]_vars

\* A call that sent a statement to a loaded backend and got rows back.
C10_Witness ==
    /\ pc = "done"
    /\ trace.issued # <<>>
    /\ ~trace.failed
    /\ DOMAIN duckdb_tables = {"customers", "plans", "activity"}
    /\ Len(duckdb_tables["customers"]) > 0
    /\ Returned.data # Null

\* ------------------------------------------------------- the pipeline's properties

\* The raw tables, the cleaned tables and the unified table of a state that
\* has them.
Raw(table_name) == raw_data[1][table_name]
Clean(table_name) == cleaned_data[1][table_name]
Unified == unified_data[1]
View(name) == processed_data[1][name]

\* The positions of the rows whose customer_id no earlier row holds.
FirstOccurrences(rows) ==
    {i \in 1..Len(rows) :
        \A j \in 1..(i - 1) : ~SameCell(rows[j].customer_id, rows[i].customer_id)}

\* The k-th smallest of a set of positions.
Nth(positions, k) ==
    CHOOSE i \in positions : Cardinality({j \in positions : j <= i}) = k

\* customer_id is unique in a frame.
UniqueCustomerId(df) ==
    \A i, j \in 1..Len(df.rows) :
        i # j => ~SameCell(df.rows[i].customer_id, df.rows[j].customer_id)

\* C16: after cleaning the customers table, customer_id is unique, the rows
\* kept are the first occurrences of their customer_id in the raw table, in
\* the raw order, and no kept row has a missing customer_name: a missing name
\* reads "Unknown Customer".
C16_CustomersCleaned ==
    cleaned_data # Null =>
        /\ UniqueCustomerId(Clean("customers"))
        /\ Len(Clean("customers").rows)
               = Cardinality(FirstOccurrences(Raw("customers").rows))
        /\ \A k \in 1..Len(Clean("customers").rows) :
              /\ Clean("customers").rows[k].customer_id
                     = Raw("customers").rows[
                           Nth(FirstOccurrences(Raw("customers").rows), k)].customer_id
              /\ ~IsNa(Clean("customers").rows[k].customer_name)
              /\ Clean("customers").rows[k].customer_name
                     = IF IsNa(Raw("customers").rows[
                                   Nth(FirstOccurrences(Raw("customers").rows), k)]
                                   .customer_name)
                       THEN StrCell(UnknownCustomer)
                       ELSE Raw("customers").rows[
                                Nth(FirstOccurrences(Raw("customers").rows), k)]
                                .customer_name

\* Cleaning has dropped a repeated customer_id whose first occurrence had no
\* name, and the row kept is named "Unknown Customer".
C16_Witness ==
    /\ cleaned_data # Null
    /\ Len(Clean("customers").rows) < Len(Raw("customers").rows)
    /\ \E k \in 1..Len(Clean("customers").rows) :
          /\ Clean("customers").rows[k].customer_name = StrCell(UnknownCustomer)
          /\ \E i, j \in 1..Len(Raw("customers").rows) :
                /\ i < j
                /\ IsNa(Raw("customers").rows[i].customer_name)
                /\ ~IsNa(Raw("customers").rows[j].customer_name)
                /\ Raw("customers").rows[i].customer_id
                       = Clean("customers").rows[k].customer_id
                /\ Raw("customers").rows[j].customer_id
                       = Clean("customers").rows[k].customer_id

\* Whether column col of row row holds a number no larger than its
\* regular_users.
WithinRegularUsers(row, col) ==
    /\ IsNum(row[col])
    /\ IsNum(row["regular_users"])
    /\ RatioLeq(row[col].v, row["regular_users"].v)

\* C12: whatever the raw activity table holds (missing, non-numeric and
\* negative cells too), cleaning it does not raise, and every row of the
\* cleaned activity table has monthly_active_users <= regular_users and
\* paid_users <= regular_users.
C12_ClampInvariant ==
    /\ raw_data # Null => ~CleanActivityTable(Raw("activity")).raised
    /\ cleaned_data # Null =>
          \A i \in 1..Len(Clean("activity").rows) :
              \A col \in {"monthly_active_users", "paid_users"} :
                  (HasColumn(Clean("activity"), col)
                   /\ HasColumn(Clean("activity"), "regular_users"))
                      => WithinRegularUsers(Clean("activity").rows[i], col)

\* A raw activity table with a missing, a non-numeric and a negative cell and
\* a row whose monthly_active_users exceeds its regular_users has been
\* cleaned, and that row now holds its regular_users in both places.
C12_Witness ==
    /\ cleaned_data # Null
    /\ HasColumn(Raw("activity"), "paid_users")
    /\ \E i \in 1..Len(Raw("activity").rows) :
          /\ IsNum(Raw("activity").rows[i]["monthly_active_users"])
          /\ IsNum(Raw("activity").rows[i]["regular_users"])
          /\ RatioLess(Raw("activity").rows[i]["regular_users"].v,
                       Raw("activity").rows[i]["monthly_active_users"].v)
          /\ Clean("activity").rows[i]["monthly_active_users"]
                 = Raw("activity").rows[i]["regular_users"]
    /\ \E i \in 1..Len(Raw("activity").rows) : IsNa(Raw("activity").rows[i]["regular_users"])
    /\ \E i \in 1..Len(Raw("activity").rows) :
          /\ Raw("activity").rows[i]["paid_users"].t = "str"
          /\ ParseNumber(Raw("activity").rows[i]["paid_users"].v) = Null
    /\ \E i \in 1..Len(Raw("activity").rows) :
          /\ IsNum(Raw("activity").rows[i]["regular_users"])
          /\ Raw("activity").rows[i]["regular_users"].v.num < 0

\* Whether two frames hold the same columns and, cell by cell, the same
\* values of the same kind.
SameFrame(x, y) ==
    /\ x.cols = y.cols
    /\ Len(x.rows) = Len(y.rows)
    /\ \A i \in 1..Len(x.rows) :
          \A c \in Columns(x) :
              /\ x.rows[i][c].t = y.rows[i][c].t
              /\ x.rows[i][c].v = y.rows[i][c].v

\* Whether two results of load_raw_data or of clean_data, Null or the tables,
\* are the same.
SameTables(a, b) ==
    /\ Len(a) = Len(b)
    /\ a # Null => \A n \in DOMAIN a[1] : SameFrame(a[1][n], b[1][n])

\* C13: clean_data leaves the raw tables it is given as they were, so that
\* running it twice on the same raw tables gives the same clean tables both
\* times.
C13_CleanTwice ==
    [][clean_runs' = clean_runs + 1 =>
          /\ SameTables(raw_data', raw_data)
          /\ stage = "cleaned" =>
                (stage' = "cleaned" /\ SameTables(cleaned_data', cleaned_data))]_vars

\* clean_data has run twice on raw tables that it does not return as they
\* are: a name was filled in, a repeated customer dropped, and the texts of
\* the activity and the plans table made numbers.
C13_Witness ==
    /\ clean_runs = 2
    /\ stage = "cleaned"
    /\ Len(Clean("customers").rows) < Len(Raw("customers").rows)
    /\ \E i \in 1..Len(Raw("customers").rows) : IsNa(Raw("customers").rows[i].customer_name)
    /\ ~SameFrame(Clean("activity"), Raw("activity"))
    /\ ~SameFrame(Clean("plans"), Raw("plans"))

\* C17: after cleaning the plans table, every row's average_monthly_revenue
\* is a number that is not negative.
C17_RevenueNonNegative ==
    (cleaned_data # Null /\ HasColumn(Clean("plans"), "average_monthly_revenue")) =>
        \A i \in 1..Len(Clean("plans").rows) :
            /\ IsNum(Clean("plans").rows[i]["average_monthly_revenue"])
            /\ Clean("plans").rows[i]["average_monthly_revenue"].v.num >= 0

\* C11: when customer_id is unique in the cleaned customers table,
\* create_unified_dataset returns, whatever the activity and plans tables
\* hold, and returns as many rows as there are customers.
C11_JoinCompleteness ==
    (cleaned_data # Null /\ UniqueCustomerId(Clean("customers"))) =>
        /\ ~CreateUnifiedDataset(cleaned_data[1]).raised
        /\ unified_data # Null => Len(Unified.rows) = Len(Clean("customers").rows)

\* The bucket of a revenue when every bucket includes its lower bound:
\* Low below 100, Medium from 100, High from 500, Enterprise from 2000.
LowerInclusiveTier(r) ==
    IF RatioLess(r, Whole(100)) THEN <<"L","o","w">>
    ELSE IF RatioLess(r, Whole(500)) THEN <<"M","e","d","i","u","m">>
    ELSE IF RatioLess(r, Whole(2000)) THEN <<"H","i","g","h">>
    ELSE <<"E","n","t","e","r","p","r","i","s","e">>

\* C14: in customer_summary, revenue_tier is the bucket of the row's monthly
\* revenue with the lower bound included: exactly 100 is Medium, exactly 500
\* High, exactly 2000 Enterprise, and 99.99 is Low.
C14_RevenueTierBoundaries ==
    (processed_data # Null /\ HasColumn(View("customer_summary"), "revenue_tier")) =>
        \A i \in 1..Len(View("customer_summary").rows) :
            IsNum(View("customer_summary").rows[i]["average_monthly_revenue"]) =>
                /\ View("customer_summary").rows[i]["revenue_tier"].t = "str"
                /\ View("customer_summary").rows[i]["revenue_tier"].v
                       = LowerInclusiveTier(
                             View("customer_summary").rows[i]["average_monthly_revenue"].v)

\* C18: load_raw_data returns a table for each of the three names without
\* raising, and what it returns for a table it synthesized differs from what
\* it returns for any table it read from a file.
C18_ProvenanceDistinguishable ==
    stage # "start" =>
        /\ raw_data # Null
        /\ DOMAIN raw_data[1] = {TableNames[k] : k \in 1..Len(TableNames)}
        /\ \A n \in DOMAIN raw_data[1] :
              files[n].state = "present" => ~SameFrame(Raw(n), GenerateSampleData(n).df)

\* C19: each of the five view derivations returns a table for the unified
\* table it is given, whatever columns that table lacks.
C19_ViewsTolerateMissingColumns ==
    unified_data # Null =>
        \A k \in 1..Len(ViewNames) : ~CreateView(ViewNames[k], Unified).raised

\* Whether a cell holds exactly the number r.
Holds(c, r) == IsNum(c) /\ RatioEq(c.v, r)

\* Whether a cell is zero or missing.
ZeroOrNull(c) == IsNa(c) \/ Holds(c, Whole(0))

\* Whether a cell is a number above zero.
Positive(c) == IsNum(c) /\ c.v.num > 0

\* Whether ratio is above / below.
IsQuotient(ratio, above, below) ==
    IF IsNum(above) THEN Holds(ratio, RatioDiv(above.v, below.v)) ELSE IsNa(ratio)

\* The usage_patterns view of a state that has it, with both ratios.
UsagePatterns == View("usage_patterns")
HasRatios ==
    /\ processed_data # Null
    /\ HasColumn(UsagePatterns, "user_activation_rate")
    /\ HasColumn(UsagePatterns, "contacts_per_workflow")

\* C15 as stated: a row whose regular_users (workflows) is zero or missing has
\* user_activation_rate (contacts_per_workflow) exactly 0, and every other
\* row carries the quotient.
C15_QuotientUnlessZero ==
    HasRatios =>
        \A i \in 1..Len(UsagePatterns.rows) :
            /\ IF ZeroOrNull(UsagePatterns.rows[i]["regular_users"])
               THEN Holds(UsagePatterns.rows[i]["user_activation_rate"], Whole(0))
               ELSE IsQuotient(UsagePatterns.rows[i]["user_activation_rate"],
                               UsagePatterns.rows[i]["monthly_active_users"],
                               UsagePatterns.rows[i]["regular_users"])
            /\ IF ZeroOrNull(UsagePatterns.rows[i]["workflows"])
               THEN Holds(UsagePatterns.rows[i]["contacts_per_workflow"], Whole(0))
               ELSE IsQuotient(UsagePatterns.rows[i]["contacts_per_workflow"],
                               UsagePatterns.rows[i]["contacts"],
                               UsagePatterns.rows[i]["workflows"])

\* C15, amended: a row whose regular_users (workflows) is above zero carries
\* the quotient; every other row, the divisor zero, missing or negative, has
\* user_activation_rate (contacts_per_workflow) exactly 0.  No derivation of
\* usage_patterns raises.
C15_QuotientWherePositive ==
    /\ unified_data # Null => ~CreateUsagePatterns(Unified).raised
    /\ HasRatios =>
          \A i \in 1..Len(UsagePatterns.rows) :
              /\ IF Positive(UsagePatterns.rows[i]["regular_users"])
                 THEN IsQuotient(UsagePatterns.rows[i]["user_activation_rate"],
                                 UsagePatterns.rows[i]["monthly_active_users"],
                                 UsagePatterns.rows[i]["regular_users"])
                 ELSE Holds(UsagePatterns.rows[i]["user_activation_rate"], Whole(0))
              /\ IF Positive(UsagePatterns.rows[i]["workflows"])
                 THEN IsQuotient(UsagePatterns.rows[i]["contacts_per_workflow"],
                                 UsagePatterns.rows[i]["contacts"],
                                 UsagePatterns.rows[i]["workflows"])
                 ELSE Holds(UsagePatterns.rows[i]["contacts_per_workflow"], Whole(0))

\* usage_patterns has been derived from rows whose regular_users and
\* workflows are zero, missing, negative and above zero.
C15_Witness ==
    /\ HasRatios
    /\ \A col \in {"regular_users", "workflows"} :
          /\ \E i \in 1..Len(UsagePatterns.rows) : Holds(UsagePatterns.rows[i][col], Whole(0))
          /\ \E i \in 1..Len(UsagePatterns.rows) : IsNa(UsagePatterns.rows[i][col])
          /\ \E i \in 1..Len(UsagePatterns.rows) :
                IsNum(UsagePatterns.rows[i][col]) /\ UsagePatterns.rows[i][col].v.num < 0
          /\ \E i \in 1..Len(UsagePatterns.rows) : Positive(UsagePatterns.rows[i][col])
    /\ \E i \in 1..Len(UsagePatterns.rows) :
          /\ Positive(UsagePatterns.rows[i]["regular_users"])
          /\ ~Holds(UsagePatterns.rows[i]["user_activation_rate"], Whole(0))
          /\ ~Holds(UsagePatterns.rows[i]["user_activation_rate"], Whole(1))

\* ------------------------------------------------------- the at-risk query

\* The rows of the plans and of the activity table of a customer.
PlanRowsOf(customer_id) ==
    {j \in 1..Len(duckdb_tables["plans"]) :
        duckdb_tables["plans"][j].customer_id = customer_id}
ActivityRowsOf(customer_id) ==
    {k \in 1..Len(duckdb_tables["activity"]) :
        duckdb_tables["activity"][k].customer_id = customer_id}

\* The three conditions of risk, as the claim words them.
BillingIssue(p) == p.billings # "Active"
NoActivity(a) == a.monthly_active_users = 0
LowEngagement(a) ==
    /\ a.regular_users > 0
    /\ RatioLess(Ratio(a.monthly_active_users, a.regular_users), Ratio(3, 10))

\* The first of the three that applies.
FirstRisk(p, a) ==
    IF BillingIssue(p) THEN "Billing Issue"
    ELSE IF NoActivity(a) THEN "No Activity"
    ELSE "Low Engagement"

\* A call routed to at_risk_customers that a loaded backend answered.
AtRiskAnswered ==
    /\ pc = "done"
    /\ IsStr(question)
    /\ db_manager # Null
    /\ trace.route.query_type = "at_risk_customers"
    /\ ~trace.failed
    /\ Returned.data # Null

\* The rows of the result that are a customer's.
ResultRowsOf(customer_name) ==
    {n \in 1..Len(Returned.data[1].rows) :
        Returned.data[1].rows[n].customer_name = customer_name}

\* C20: a customer with a plan row and an activity row is in the
\* at_risk_customers result exactly when billings != 'Active', or
\* monthly_active_users = 0, or regular_users > 0 and monthly_active_users /
\* regular_users < 0.3; its risk_category is the first of Billing Issue, No
\* Activity, Low Engagement that applies.
C20_AtRiskExactly ==
    AtRiskAnswered =>
        \A i \in 1..Len(duckdb_tables["customers"]) :
            \A j \in PlanRowsOf(duckdb_tables["customers"][i].customer_id) :
                \A k \in ActivityRowsOf(duckdb_tables["customers"][i].customer_id) :
                    /\ (ResultRowsOf(duckdb_tables["customers"][i].customer_name) # {})
                           <=> \/ BillingIssue(duckdb_tables["plans"][j])
                               \/ NoActivity(duckdb_tables["activity"][k])
                               \/ LowEngagement(duckdb_tables["activity"][k])
                    /\ \A n \in ResultRowsOf(duckdb_tables["customers"][i].customer_name) :
                           Returned.data[1].rows[n].risk_category
                               = FirstRisk(duckdb_tables["plans"][j],
                                           duckdb_tables["activity"][k])

\* The at-risk query was answered from tables with a customer of each
\* category, a customer whose ratio is exactly 0.3 and who is left out, and a
\* customer with a billing issue and a low ratio at once.
C20_Witness ==
    /\ AtRiskAnswered
    /\ \A category \in {"Billing Issue", "No Activity", "Low Engagement"} :
          \E n \in 1..Len(Returned.data[1].rows) :
              Returned.data[1].rows[n].risk_category = category
    /\ \E k \in 1..Len(duckdb_tables["activity"]) :
          /\ duckdb_tables["activity"][k].monthly_active_users * 10
                 = duckdb_tables["activity"][k].regular_users * 3
          /\ duckdb_tables["activity"][k].monthly_active_users > 0
          /\ duckdb_tables["plans"][k].billings = "Active"
          /\ ResultRowsOf(duckdb_tables["customers"][k].customer_name) = {}
    /\ \E k \in 1..Len(duckdb_tables["activity"]) :
          /\ LowEngagement(duckdb_tables["activity"][k])
          /\ ~NoActivity(duckdb_tables["activity"][k])
          /\ BillingIssue(duckdb_tables["plans"][k])
          /\ ResultRowsOf(duckdb_tables["customers"][k].customer_name) # {}

\* ------------------------------------------- properties of the interface

ExampleQuestions == {GetExampleQuestions[k] : k \in 1..Len(GetExampleQuestions)}

\* C24: every question of get_example_questions, passed to process_query,
\* matches at least one intent pattern and is dispatched to an analysis, not
\* answered with the no-match fallback response.
C24_ExamplesHandled ==
    pc = "done" /\ question \in ExampleQuestions =>
        /\ Matches(DOMAIN PatternTable)
        /\ trace.route.handler # "none"
        /\ Returned # GenerateFallbackResponse(question)

\* The words the questions about plans are put together from: the four plan
\* names in several spellings, two words that hold a plan name inside them
\* and one that holds none.
PlanAtoms ==
    << <<"b","a","s","i","c">>, <<"S","t","a","n","d","a","r","d">>, <<"P","R","O">>, <<"e","n","t","e","r","p","r","i","s","e">>, <<"p","r","o","f","e","s","s","i","o","n","a","l">>,
       <<"i","m","p","r","o","v","e","m","e","n","t">>, <<"c","u","s","t","o","m","e","r","s">> >>

\* The longest question about plans, in words after "Tell me about".
MaxPlanWords == 2

RECURSIVE JoinWords(_)
\* The plan atoms at the given indices, joined by single spaces.
JoinWords(ix) ==
    IF ix = <<>> THEN <<>>
    ELSE IF Len(ix) = 1 THEN PlanAtoms[ix[1]]
    ELSE PlanAtoms[ix[1]] \o <<" ">> \o JoinWords(Tail(ix))

RECURSIVE WordSeqs(_)
\* Every sequence of at most n indices of plan atoms.
WordSeqs(n) ==
    IF n = 0 THEN {<<>>}
    ELSE LET shorter == WordSeqs(n - 1)
         IN  shorter \cup {Append(s, a) : s \in {x \in shorter : Len(x) = n - 1},
                                          a \in 1..Len(PlanAtoms)}

\* Questions that match the generic-insights pattern, with the words before
\* or after "Tell me about".
PlanQuestions ==
    {<<"T","e","l","l"," ","m","e"," ","a","b","o","u","t"," ">> \o JoinWords(ix) : ix \in WordSeqs(MaxPlanWords)}
        \cup {JoinWords(ix) \o <<" ","t","e","l","l"," ","m","e"," ","a","b","o","u","t">> : ix \in WordSeqs(MaxPlanWords)}

AskPlan == \E q \in PlanQuestions : Ask(q)

\* One call on a router just constructed, over the questions about plans.
NextPlans == Load \/ AskPlan \/ ProcessQueryStep
SpecPlans == Init /\ [][NextPlans]_vars

\* C30: the plan interpolated into the plan-filtered SQL is one of 'Basic',
\* 'Standard', 'Pro', 'Enterprise', never other text of the question, and it
\* is the title-cased plan name whose occurrence is leftmost in the
\* lower-cased question, found as a substring.
C30_PlanInterpolated ==
    pc = "done" /\ trace.route.handler = "_execute_custom_plan_query" =>
        LET q == Lower(question)
            plan == trace.route.plan
            sql == trace.route.sql[1]
        IN  /\ \E k \in 1..Len(PlanNames) : plan = PlanNames[k]
            /\ sql.template = PlanFilteredTemplate
            /\ sql.args = <<Txt(plan)>>
            /\ db_manager # Null => trace.issued = <<sql>>
            /\ \E i \in 1..Len(q) :
                 /\ HasAt(q, i, Lower(plan))
                 /\ plan = Title(SubSeq(q, i, i + Len(plan) - 1))
                 /\ \A j \in 1..(i - 1) : \A k \in 1..Len(PlanWords) :
                        ~HasAt(q, j, PlanWords[k])

\* "Tell me about professional basic", asked against a backend: the statement
\* sent filters on 'Pro', the name found inside the first word, not on
\* 'Basic', the first of the names the pattern lists.
C30_Witness ==
    /\ pc = "done"
    /\ question = <<"T","e","l","l"," ","m","e"," ","a","b","o","u","t"," ","p","r","o","f","e","s","s","i","o","n","a","l"," ","b","a","s","i","c">>
    /\ db_manager # Null
    /\ trace.route.handler = "_execute_custom_plan_query"
    /\ trace.route.plan = <<"P","r","o">>
    /\ Len(trace.issued) = 1
    /\ Interpolates(trace.issued[1], <<"P","r","o">>)

\* C27: in every QueryResult returned by process_query, a non-null error
\* comes with data null and sql null, and the answer holds the error message.
C27_ErrorShape ==
    pc = "done" /\ Returned.error # Null =>
        /\ Returned.data = Null
        /\ Returned.sql = Null
        /\ \E k \in 1..Len(Returned.answer.args) :
               Returned.answer.args[k] = Sym(Returned.error[1])

\* process_query(None) returned: lower() raised inside the try block and the
\* except branch built the result.
C27_Witness ==
    /\ pc = "done"
    /\ question = NoneQuestion
    /\ Returned.error = Some("'NoneType' object has no attribute 'lower'")
    /\ Returned.sql = Null
    /\ Returned.data = Null

\* C26: with a backend attached, a non-null data field of the QueryResult
\* returned by process_query is the table the backend returned for the
\* statement in the same result's sql field; sample data never comes paired
\* with a placeholder SQL comment.
C26_DataAnswersSql ==
    pc = "done" /\ db_manager # Null /\ Returned.data # Null =>
        /\ Returned.sql # Null
        /\ IsSelect(Returned.sql[1])
        /\ trace.issued = <<Returned.sql[1]>>
        /\ ~trace.failed
        /\ \E tie \in TieOrders :
               ExecuteQuery(Returned.sql[1], duckdb_tables, tie).data = Returned.data

\* The columns _generate_contextual_answer looks for.
AnswerCols ==
    << "customer_name", "plan_name", "revenue", "average_monthly_revenue",
       "avg_contacts", "user_activation_rate", "total_monthly_revenue" >>

\* The rows of the largest result a backend answers with.
MaxRows == 2

\* Row k of a result that has every column.
AnswerRow(k) ==
    [customer_name |-> k, plan_name |-> PlanNames[k], revenue |-> 100 * k,
     average_monthly_revenue |-> 50 * k, avg_contacts |-> Whole(10 * k),
     user_activation_rate |-> 10 * k, total_monthly_revenue |-> 1000 * k]

RECURSIVE Kept(_, _)
\* The columns of cols that are in the set keep, in their order.
Kept(cols, keep) ==
    IF cols = <<>> THEN <<>>
    ELSE IF Head(cols) \in keep THEN <<Head(cols)>> \o Kept(Tail(cols), keep)
    ELSE Kept(Tail(cols), keep)

\* The results a backend may answer with: any of the columns, up to MaxRows
\* rows.
Frames ==
    {Table(Kept(AnswerCols, keep), [k \in 1..n |-> [c \in keep |-> AnswerRow(k)[c]]]) :
         keep \in SUBSET {AnswerCols[i] : i \in 1..Len(AnswerCols)}, n \in 0..MaxRows}

\* One question for each analysis of the catalog the router dispatches to.
AnalysisQuestions ==
    { <<"t","o","p"," ","1","0"," ","c","u","s","t","o","m","e","r","s">>, <<"c","o","r","r","e","l","a","t","i","o","n"," ","w","i","t","h"," ","u","s","a","g","e">>, <<"p","l","a","n"," ","a","n","a","l","y","s","i","s">>,
      <<"u","s","a","g","e"," ","p","a","t","t","e","r","n","s">>, <<"r","i","s","k"," ","c","u","s","t","o","m","e","r","s">>, <<"a","p","i"," ","r","a","t","e">>, <<"n","e","w">> }

AskAnalysis == \E q \in AnalysisQuestions : Ask(q)

\* process_query on a question routed to _execute_query, with a db_manager
\* whose execute_query answers the statement with the given frame.
ProcessQueryAnswered(frame) ==
    /\ pc = "ready"
    /\ db_manager # Null
    /\ \E r \in {Route(Lower(question), query_patterns)} :
         /\ r.handler = "_execute_query"
         /\ r.sql # Null
         /\ \E h \in {ExecuteQueryEnded([raised |-> FALSE, msg |-> "",
                                         data |-> Some(frame), store |-> duckdb_tables],
                                        r.sql[1], r.query_type, question, rng)} :
              /\ outcome' = Some([raised |-> FALSE, value |-> h.result[1]])
              /\ trace' = [route |-> r, issued |-> h.issued, failed |-> h.failed,
                           returned |-> Some(frame)]
              /\ rng' = h.rng
    /\ pc' = "done"
    /\ calls' = calls + 1
    /\ UNCHANGED <<query_patterns, db_manager, duckdb_tables, question>>
    /\ UNCHANGED pipeline
    /\ UNCHANGED <<manager, risk>>

BackendAnswers == \E frame \in Frames : ProcessQueryAnswered(frame)

\* One call on a router whose backend answers with any result.
NextAnswer == AskAnalysis \/ BackendAnswers
InitAnswer == Init /\ db_manager # Null
SpecAnswer == InitAnswer /\ [][NextAnswer]_vars

\* C25: after a successful backend execution the answer is synthesized
\* whatever columns the result has, each fact only when its column is there,
\* and the QueryResult returned carries the backend's table as data together
\* with the statement executed.
C25_AnswerFromResult ==
    pc = "done" /\ trace.issued # <<>> /\ ~trace.failed =>
        /\ Returned.error = Null
        /\ Returned.sql = Some(trace.issued[1])
        /\ Returned.data = trace.returned
        /\ Returned.answer =
               GenerateContextualAnswer(trace.route.query_type, trace.returned[1],
                                        question)


\* ------------------------------------------------- the database manager
\* DatabaseManager.create_tables statement by statement.  The loop takes the
\* tables of the mapping in order; for each it writes the SQLite table
\* (to_sql, if_exists='replace') and then the DuckDB table (CREATE OR REPLACE
\* TABLE).  An exception of either statement is logged and raised again, and
\* the call ends there.  The manager holds no lock: between two statements
\* another caller of the same manager may run.

\* The order in which dict.items() yields the tables of a mapping.
TableOrder == <<"customers", "plans", "activity">>
Keys(tables) == Kept(TableOrder, DOMAIN tables)

\* A mapping that names one table only.
CustomersOnly == [name \in {"customers"} |-> Customers(1)]

\* The mappings create_tables is called with.
ManagerLoads == {SmallData, Mapping(2, SmallRevenue), CustomersOnly}

\* The questions asked of the router while the manager loads.
ManagerQuestions == {ScenarioA, ScenarioB}

\* The store with one table created or replaced.
WithTable(store, name, rows) ==
    [n \in DOMAIN store \cup {name} |-> IF n = name THEN rows ELSE store[n]]

\* create_tables(tables) is called.
CreateTablesCall(tables) ==
    /\ db_manager # Null
    /\ loading = Null
    /\ loading' = Some([tables |-> tables, todo |-> Keys(tables), at |-> "to_sql"])
    /\ UNCHANGED <<sqlite_tables, loaded, query, validation, executed>>
    /\ UNCHANGED <<router, rng>>
    /\ UNCHANGED <<pipeline, risk>>

\* The exception of a statement leaves create_tables.
Raised(call) == Some([tables |-> call.tables, raised |-> TRUE])

\* df.to_sql(table_name, self.engine, if_exists='replace', index=False)
ToSql(ok) ==
    /\ loading # Null
    /\ loading[1].at = "to_sql"
    /\ \E call \in {loading[1]} :
         IF ok
         THEN /\ sqlite_tables' = WithTable(sqlite_tables, Head(call.todo),
                                            call.tables[Head(call.todo)])
              /\ loading' = Some([call EXCEPT !.at = "duckdb"])
              /\ UNCHANGED loaded
         ELSE /\ loading' = Null
              /\ loaded' = Raised(call)
              /\ UNCHANGED sqlite_tables
    /\ UNCHANGED <<query, validation, executed>>
    /\ UNCHANGED <<router, rng>>
    /\ UNCHANGED <<pipeline, risk>>

\* self.duckdb_conn.execute("CREATE OR REPLACE TABLE ... AS SELECT * FROM df"),
\* and the end of the iteration: the next table, or the return.
CreateOrReplaceTable(ok) ==
    /\ loading # Null
    /\ loading[1].at = "duckdb"
    /\ \E call \in {loading[1]} :
         IF ok
         THEN /\ duckdb_tables' = WithTable(duckdb_tables, Head(call.todo),
                                            call.tables[Head(call.todo)])
              /\ IF Tail(call.todo) = <<>>
                 THEN /\ loading' = Null
                      /\ loaded' = Some([tables |-> call.tables, raised |-> FALSE])
                 ELSE /\ loading' = Some([call EXCEPT !.todo = Tail(call.todo),
                                                      !.at = "to_sql"])
                      /\ UNCHANGED loaded
         ELSE /\ loading' = Null
              /\ loaded' = Raised(call)
              /\ UNCHANGED duckdb_tables
    /\ UNCHANGED <<sqlite_tables, query, validation, executed>>
    /\ UNCHANGED <<query_patterns, db_manager, pc, question, outcome, trace, calls, rng>>
    /\ UNCHANGED <<pipeline, risk>>

CallCreateTables == \E tables \in ManagerLoads : CreateTablesCall(tables)
ToSqlStep == \E ok \in BOOLEAN : ToSql(ok)
CreateOrReplaceStep == \E ok \in BOOLEAN : CreateOrReplaceTable(ok)
AskManaged == \E q \in ManagerQuestions : Ask(q)

\* A manager that loads, call after call, and a router that is asked one
\* question at any moment of it.
InitManager == Init /\ db_manager # Null
NextManager ==
    CallCreateTables \/ ToSqlStep \/ CreateOrReplaceStep \/ AskManaged \/ ProcessQueryStep
SpecManager == InitManager /\ [][NextManager]_vars

\* The tables the call in progress has replaced in DuckDB, and those it has
\* yet to replace.
ReplacedSoFar ==
    {name \in DOMAIN loading[1].tables :
        \A k \in 1..Len(loading[1].todo) : loading[1].todo[k] # name}
YetToReplace == {loading[1].todo[k] : k \in 1..Len(loading[1].todo)}

\* C21: a statement that process_query executes while create_tables is in
\* progress never reads a partly reloaded backend: some of its tables replaced
\* by the call already and others still to be replaced.
C21_ExclusiveReload ==
    [][(pc = "ready" /\ pc' = "done" /\ trace'.issued # <<>> /\ loading # Null) =>
           ~(/\ TablesOf(trace'.issued[1]) \cap ReplacedSoFar # {}
             /\ TablesOf(trace'.issued[1]) \cap YetToReplace # {})]_vars

\* Whether a store holds the tables of the mapping and no other.
HoldsExactly(store, tables) ==
    /\ DOMAIN store = DOMAIN tables
    /\ \A name \in DOMAIN tables : store[name] = tables[name]

\* C22: after create_tables(T) has returned, every table named in T holds the
\* rows of T and no others, and the backend holds no table of an earlier load
\* that T does not name.
C22_RebuiltFromScratch ==
    loading = Null /\ loaded # Null /\ ~loaded[1].raised =>
        /\ HoldsExactly(sqlite_tables, loaded[1].tables)
        /\ HoldsExactly(duckdb_tables, loaded[1].tables)

\* C28: after any sequence of create_tables calls, those that raised part-way
\* among them, the SQLite store and the DuckDB store hold the same tables with
\* the same rows.
C28_StoresAgree ==
    loading = Null => HoldsExactly(sqlite_tables, duckdb_tables)


\* ---------------------------------------------------- statement texts
\* DatabaseManager.validate_query and execute_query on statements the caller
\* writes.

\* str.upper() and str.strip().
Upper(s) == SubSeq([i \in 1..Len(s) |-> UpperChar(s[i])], 1, Len(s))
IsSpace(c) == c \in {" ", "\t", "\n", "\r", "\f"}
RECURSIVE LStrip(_)
LStrip(s) == IF s # <<>> /\ IsSpace(Head(s)) THEN LStrip(Tail(s)) ELSE s
RECURSIVE RStrip(_)
RStrip(s) ==
    IF s # <<>> /\ IsSpace(s[Len(s)]) THEN RStrip(SubSeq(s, 1, Len(s) - 1)) ELSE s
Strip(s) == RStrip(LStrip(s))

\* str.startswith(prefix) and `keyword in text`.
StartsWith(s, prefix) == HasAt(s, 1, prefix)
In(keyword, text) == \E i \in 1..Len(text) : HasAt(text, i, keyword)

\* The statement types reported unsafe, and the dangerous keywords.
UnsafeCommands == <<<<"I","N","S","E","R","T">>, <<"U","P","D","A","T","E">>, <<"D","E","L","E","T","E">>, <<"D","R","O","P">>, <<"C","R","E","A","T","E">>>>
DangerousKeywords == <<<<"D","R","O","P">>, <<"D","E","L","E","T","E">>, <<"T","R","U","N","C","A","T","E">>, <<"A","L","T","E","R">>>>

UnsafeTypeWarning == Fmt("Potentially unsafe query type detected", <<>>)
KeywordWarning(keyword) == Fmt("Dangerous keyword '{}' detected", <<Txt(keyword)>>)

RECURSIVE KeywordWarningsExact(_, _)
\* A keyword loop that looks for the keywords in the text as it was typed.
KeywordWarningsExact(text, keywords) ==
    IF keywords = <<>> THEN <<>>
    ELSE (IF In(Head(keywords), text) THEN <<KeywordWarning(Head(keywords))>> ELSE <<>>)
             \o KeywordWarningsExact(text, Tail(keywords))

RECURSIVE KeywordWarnings(_, _)
\* The loop over dangerous_keywords: a warning for each keyword the
\* upper-cased text holds, in the order of the list.
KeywordWarnings(query_upper, keywords) ==
    IF keywords = <<>> THEN <<>>
    ELSE (IF In(Head(keywords), query_upper)
          THEN <<KeywordWarning(Head(keywords))>> ELSE <<>>)
             \o KeywordWarnings(query_upper, Tail(keywords))

\* The try block of validate_query on the stripped, upper-cased text.
Validated(query_upper, keyword_warnings) ==
    LET select == StartsWith(query_upper, <<"S","E","L","E","C","T">>)
        unsafe_type == /\ ~select
                       /\ \E k \in 1..Len(UnsafeCommands) :
                              StartsWith(query_upper, UnsafeCommands[k])
    IN  [is_valid |-> TRUE,
         is_safe |-> ~unsafe_type /\ keyword_warnings = <<>>,
         query_type |-> IF select THEN "SELECT" ELSE "UNKNOWN",
         warnings |-> (IF unsafe_type THEN <<UnsafeTypeWarning>> ELSE <<>>)
                          \o keyword_warnings]

\* What validate_query returns when its try block raised.
ValidationError(msg) ==
    [is_valid |-> FALSE, is_safe |-> FALSE, query_type |-> "ERROR",
     warnings |-> <<Fmt("Validation error: {}", <<Sym(msg)>>)>>]

\* A validate_query that searches the text without upper-casing it.
ValidateQueryCaseSensitive(text) ==
    IF ~IsStr(text) THEN ValidationError("'NoneType' object has no attribute 'strip'")
    ELSE Validated(Upper(Strip(text)), KeywordWarningsExact(Strip(text), DangerousKeywords))

\* DatabaseManager.validate_query(query)
ValidateQuery(text) ==
    IF ~IsStr(text) THEN ValidationError("'NoneType' object has no attribute 'strip'")
    ELSE Validated(Upper(Strip(text)),
                   KeywordWarnings(Upper(Strip(text)), DangerousKeywords))

\* The statements a caller passes, each with what DuckDB does when it runs
\* the text: the tables it reads, drops, empties, renames or updates, in
\* order; "error" is a statement DuckDB rejects.
Does(what, table) == [does |-> what, table |-> table]
Statements ==
    << [text |-> <<"S","E","L","E","C","T"," ","*"," ","F","R","O","M"," ","c","u","s","t","o","m","e","r","s">>, effects |-> <<Does("select", "customers")>>],
       [text |-> <<" "," ","s","e","l","e","c","t"," ","c","u","s","t","o","m","e","r","_","n","a","m","e"," ","f","r","o","m"," ","c","u","s","t","o","m","e","r","s"," ">>,
        effects |-> <<Does("select", "customers")>>],
       [text |-> <<"S","E","L","E","C","T"," ","d","r","o","p","p","e","d","_","a","t"," ","F","R","O","M"," ","c","u","s","t","o","m","e","r","s">>,
        effects |-> <<Does("error", "customers")>>],
       [text |-> <<"D","R","O","P"," ","T","A","B","L","E"," ","c","u","s","t","o","m","e","r","s">>, effects |-> <<Does("drop", "customers")>>],
       [text |-> <<"d","r","o","p"," ","t","a","b","l","e"," ","p","l","a","n","s">>, effects |-> <<Does("drop", "plans")>>],
       [text |-> <<"D","e","l","e","t","e"," ","f","r","o","m"," ","p","l","a","n","s">>, effects |-> <<Does("delete", "plans")>>],
       [text |-> <<"T","R","U","N","C","A","T","E"," ","a","c","t","i","v","i","t","y">>, effects |-> <<Does("delete", "activity")>>],
       [text |-> <<"a","l","t","e","r"," ","t","a","b","l","e"," ","p","l","a","n","s"," ","r","e","n","a","m","e"," ","t","o"," ","o","l","d","_","p","l","a","n","s">>,
        effects |-> <<Does("rename", "plans")>>],
       [text |-> <<"U","P","D","A","T","E"," ","p","l","a","n","s"," ","S","E","T"," ","b","i","l","l","i","n","g","s"," ","="," ","'","A","c","t","i","v","e","'">>,
        effects |-> <<Does("update", "plans")>>],
       [text |-> <<"D","R","O","P"," ","T","A","B","L","E"," ","p","l","a","n","s",";"," ","D","E","L","E","T","E"," ","F","R","O","M"," ","a","c","t","i","v","i","t","y">>,
        effects |-> <<Does("drop", "plans"), Does("delete", "activity")>>],
       [text |-> NoneQuestion, effects |-> <<Does("error", "customers")>>] >>

\* What DuckDB does with a text.
MeaningOf(text) ==
    Statements[CHOOSE k \in 1..Len(Statements) : Statements[k].text = text].effects

\* One statement run on the store.
Applied(effect, store) ==
    CASE effect.does = "drop" ->
            [name \in DOMAIN store \ {effect.table} |-> store[name]]
      [] effect.does = "delete" -> WithTable(store, effect.table, <<>>)
      [] effect.does = "rename" ->
            [name \in (DOMAIN store \ {effect.table}) \cup {"old_" \o effect.table} |->
                IF name \in DOMAIN store \ {effect.table} THEN store[name]
                ELSE store[effect.table]]
      [] effect.does = "update" ->
            WithTable(store, effect.table,
                      [i \in 1..Len(store[effect.table]) |->
                          [store[effect.table][i] EXCEPT !.billings = "Active"]])
      [] OTHER -> store

RECURSIVE Run(_, _)
\* The statements of a text run in order; the first that DuckDB rejects, or
\* that names a table the store does not hold, raises and ends the run.
Run(effects, store) ==
    IF effects = <<>> THEN [raised |-> FALSE, store |-> store]
    ELSE IF Head(effects).does = "error" \/ Head(effects).table \notin DOMAIN store
    THEN [raised |-> TRUE, store |-> store]
    ELSE Run(Tail(effects), Applied(Head(effects), store))

\* A caller has a statement text.
Submit(text) ==
    /\ db_manager # Null
    /\ loading = Null
    /\ query' = text
    /\ validation' = Null
    /\ executed' = Null
    /\ UNCHANGED <<sqlite_tables, loading, loaded>>
    /\ UNCHANGED <<router, rng>>
    /\ UNCHANGED <<pipeline, risk>>

\* The caller asks validate_query about the text.
ValidateQueryStep ==
    /\ query # <<>>
    /\ validation = Null
    /\ validation' = Some(ValidateQuery(query))
    /\ UNCHANGED <<sqlite_tables, loading, loaded, query, executed>>
    /\ UNCHANGED <<router, rng>>
    /\ UNCHANGED <<pipeline, risk>>

\* The caller passes the text to execute_query(query): the DuckDB connection
\* runs it, validated or not, whatever validate_query said of it.
ExecuteStatementStep ==
    /\ query # <<>>
    /\ executed = Null
    /\ \E r \in {Run(MeaningOf(query), duckdb_tables)} :
         /\ duckdb_tables' = r.store
         /\ executed' = Some([raised |-> r.raised])
    /\ UNCHANGED <<sqlite_tables, loading, loaded, query, validation>>
    /\ UNCHANGED <<query_patterns, db_manager, pc, question, outcome, trace, calls, rng>>
    /\ UNCHANGED <<pipeline, risk>>

SubmitAny == \E k \in 1..Len(Statements) : Submit(Statements[k].text)
LoadSmall == \E tables \in ManagerLoads : CreateTables(tables)

\* A manager that is loaded and then given statement after statement.
NextStatements == LoadSmall \/ SubmitAny \/ ValidateQueryStep \/ ExecuteStatementStep
SpecStatements == InitManager /\ [][NextStatements]_vars

\* The warnings of a validation that name the keyword.
WarningsOf(v, keyword) ==
    {k \in 1..Len(v.warnings) : v.warnings[k] = KeywordWarning(keyword)}

\* What validate_query reported of the text: is_safe false when the text
\* holds a dangerous keyword in any case, and one warning for each keyword it
\* holds, none for a keyword it does not hold.
ReportsKeywords ==
    validation # Null /\ IsStr(query) =>
        \A k \in 1..Len(DangerousKeywords) :
            IF In(DangerousKeywords[k], Upper(query))
            THEN /\ ~validation[1].is_safe
                 /\ Cardinality(WarningsOf(validation[1], DangerousKeywords[k])) = 1
            ELSE WarningsOf(validation[1], DangerousKeywords[k]) = {}

\* execute_query runs the text as DuckDB reads it, with or without a
\* validation, safe or not.
RunsRegardless ==
    executed = Null /\ executed' # Null =>
        /\ duckdb_tables' = Run(MeaningOf(query), duckdb_tables).store
        /\ executed'[1].raised = Run(MeaningOf(query), duckdb_tables).raised

\* C23: validate_query reports is_safe = false for every text that holds DROP,
\* DELETE, TRUNCATE or ALTER in any case, adds one warning for each of these
\* keywords it finds, and is advisory only: execute_query runs a text
\* whatever validate_query reports for it.
C23_AdvisoryBlacklist == [](ReportsKeywords) /\ [][RunsRegardless]_vars

\* "drop table plans" was reported unsafe, with one warning for DROP, and
\* executed all the same: the plans table is gone.
C23_Witness ==
    /\ query = <<"d","r","o","p"," ","t","a","b","l","e"," ","p","l","a","n","s">>
    /\ validation # Null
    /\ ~validation[1].is_safe
    /\ validation[1].warnings = <<UnsafeTypeWarning, KeywordWarning(<<"D","R","O","P">>)>>
    /\ executed # Null
    /\ ~executed[1].raised
    /\ "customers" \in DOMAIN duckdb_tables
    /\ "plans" \notin DOMAIN duckdb_tables


\* -------------------------------------------- the at-risk statement, row
\* by row, over cells that may be NULL

\* The cells a joined row may hold in the three columns the statement tests.
BillingsCells == {Null, Some("Active"), Some("Past Due"), Some("Cancelled")}
ActiveUsersCells == {Null, Some(0), Some(2), Some(3), Some(9), Some(-1)}
RegularUsersCells == {Null, Some(0), Some(1), Some(10), Some(-5)}
RiskRows ==
    [billings : BillingsCells, monthly_active_users : ActiveUsersCells,
     regular_users : RegularUsersCells]

\* A manager whose join yields the row.
InitRisk ==
    /\ query_patterns = PatternTable
    /\ db_manager = Some("DatabaseManager")
    /\ duckdb_tables = <<>>
    /\ rng = UnseededRng
    /\ pc = "idle"
    /\ question = <<>>
    /\ outcome = Null
    /\ trace = NoTrace
    /\ calls = 0
    /\ files = [customers |-> MissingFile, activity |-> MissingFile, plans |-> MissingFile]
    /\ Constructed
    /\ sqlite_tables = <<>>
    /\ loading = Null
    /\ loaded = Null
    /\ query = <<>>
    /\ validation = Null
    /\ executed = Null
    /\ joined \in {Some(row) : row \in RiskRows}
    /\ selected = Null

\* The statement of revenue_at_risk_analysis evaluates the row: its WHERE
\* clause decides whether the row is in the result, its CASE gives the row's
\* risk_category.
EvaluateRow(by_zero) ==
    /\ joined # Null
    /\ selected = Null
    /\ \E row \in {joined[1]} :
         selected' =
             Some([in_result |-> AtRiskWhere(row.billings, row.monthly_active_users,
                                             row.regular_users, by_zero) = "true",
                   risk_category |-> RiskCase(row.billings, row.monthly_active_users,
                                              row.regular_users, by_zero)])
    /\ UNCHANGED joined
    /\ UNCHANGED <<router, rng>>
    /\ UNCHANGED <<pipeline, manager>>

NextRisk == \E by_zero \in {"true", "false", "null"} : EvaluateRow(by_zero)
SpecRisk == InitRisk /\ [][NextRisk]_vars

\* C29: no row of an at_risk_customers result has risk_category 'Healthy':
\* a row that passes the WHERE clause falls under Billing Issue, No Activity
\* or Low Engagement, rows with NULL billings, NULL monthly_active_users or
\* regular_users = 0 included.
C29_NeverHealthy ==
    selected # Null /\ selected[1].in_result =>
        selected[1].risk_category \in {"Billing Issue", "No Activity", "Low Engagement"}

\* A row with NULL billings and 2 active users of 10 is in the result, as Low
\* Engagement: the first two conditions are NULL and false, the third true.
C29_Witness ==
    /\ selected # Null
    /\ joined[1].billings = Null
    /\ joined[1].monthly_active_users = Some(2)
    /\ joined[1].regular_users = Some(10)
    /\ selected[1].in_result
    /\ selected[1].risk_category = "Low Engagement"

====
